---- MODULE Spec2Model ----
(***************************************************************************)
(* photo-tagger: the scan pipeline (scanner.py) over the SQLite store      *)
(* (database.py), and the analysis and rename operations (ai_analyzer.py). *)
(*                                                                         *)
(* A file on disk is a path (1..MaxFiles) holding one of a few byte        *)
(* contents ("blobs").  The store is the `files` table: a sequence of      *)
(* rows whose index is the AUTOINCREMENT id (rows are never deleted).      *)
(* A nullable column holds Null (<<>>) or Some(v) (<<v>>).                 *)
(***************************************************************************)
EXTENDS Integers, Sequences, FiniteSets, TLC

\* ------------------------------------------------------------------ bounds
MaxFiles == 4
MaxWrites == 3
MaxScans == 2
MaxFaults == 1
MaxFrames == 3
MaxBlocks == 2
MaxBlockWrites == 2
MaxRenames == 2
MaxDeletes == 1
MaxRuns == 2
MaxRows == 4
MaxWalk == 21
MaxRaises == 2
MaxEntries == 2
MaxDepth == 2
MaxRescans == 2
MaxEdits == 2

\* ------------------------------------------------------- program constants
JUNK_SIZE_THRESHOLD == 10000
NearDupThreshold == 8
BATCH_SIZE == 10
DefaultDuration == 10
HexDigits == 16

IMAGE_EXTENSIONS ==
    { ".jpg", ".jpeg", ".png", ".gif", ".bmp", ".tiff", ".tif", ".webp",
      ".heic", ".heif", ".raw", ".cr2", ".nef", ".arw", ".svg", ".ico" }

VIDEO_EXTENSIONS ==
    { ".mp4", ".mov", ".avi", ".mkv", ".wmv", ".flv", ".webm", ".m4v",
      ".mpg", ".mpeg", ".3gp" }

\* ------------------------------------------------------------ option type
Null == <<>>
Some(v) == <<v>>

\* ---------------------------------------------------------- the file tree
Paths == 1..MaxFiles
NoFile == "-"

\* os.path.basename(filepath)
basename(p) ==
    CASE p = 1 -> "Clip.MP4"
      [] p = 2 -> "a.jpg"
      [] p = 3 -> "thumb_b.JPG"
      [] OTHER -> "c.jpg"

\* os.path.splitext(filepath)[1]
splitext(p) ==
    CASE p = 1 -> ".MP4"
      [] p = 3 -> ".JPG"
      [] OTHER -> ".jpg"

\* str.lower() on the extensions and names of the tree
lower(s) ==
    CASE s = ".MP4" -> ".mp4"
      [] s = ".JPG" -> ".jpg"
      [] s = "Clip.MP4" -> "clip.mp4"
      [] s = "thumb_b.JPG" -> "thumb_b.jpg"
      [] OTHER -> s

\* any(p in fname for p in junk_patterns), on the lower-cased names of the tree
HasJunkPattern(fname) == fname = "thumb_b.jpg"

\* fname.startswith(".")
IsHidden(p) == FALSE

\* ------------------------------------------------------------ file contents
\* "A", "B", "C" decode as images; "T" is an image cut off after its header
\* (a truncated JPEG); "X" is bytes no decoder accepts.
Blobs == { "A", "B", "C", "T", "X" }

\* Image.open(filepath) identifies the format and reads the header
Opens(c) == c # "X"

\* img.verify(): a structural check that JPEG data passes whenever it opens
Verifies(c) == c # "X"

\* the pixel data loads (img.convert / img.resize inside imagehash.phash)
Decodable(c) == c \notin { "T", "X" }

\* the bytes a path may hold: in the video path the bytes of "A" (the same
\* bytes as an image elsewhere) or the undecodable "X"; any blob in a.jpg; any
\* but the truncated image in the other image paths
BlobsFor(p) ==
    CASE p = 1 -> { "A", "X" }
      [] p = 2 -> Blobs
      [] OTHER -> Blobs \ { "T" }

\* stat.st_size
SizeOf(c) ==
    CASE c = "A" -> 20000
      [] c = "B" -> 10000
      [] c = "C" -> 500
      [] c = "T" -> 15000
      [] OTHER -> 9999

\* img.size
DimsOf(c) ==
    CASE c = "A" -> <<100, 50>>
      [] c = "B" -> <<200, 100>>
      [] OTHER -> <<640, 480>>

\* img._getexif(): only "A" carries EXIF tags
HasExif(c) == c = "A"

\* imagehash.phash(img): the 64-bit fingerprint, as the set of its 1-bits
\* (bit 0 the least significant).  A-B differ in 8 bits, A-C in 9, B-C in 1.
phash(c) ==
    CASE c = "A" -> {}
      [] c = "B" -> 0..7
      [] OTHER -> 0..8

\* ------------------------------------------------------------- fingerprints
\* one bit of a fingerprint as the weight it has in its hex digit
BitWeight(bits, base, j) == IF base + j \in bits THEN 2^j ELSE 0

\* str(ImageHash): 16 hex digits, most significant first
HashToHex(bits) ==
    [k \in 1..HexDigits |->
        LET base == 4 * (HexDigits - k)
        IN  BitWeight(bits, base, 0) + BitWeight(bits, base, 1)
              + BitWeight(bits, base, 2) + BitWeight(bits, base, 3)]

\* imagehash.hex_to_hash(hexstr)
hex_to_hash(hex) ==
    { 4 * (Len(hex) - kj[1]) + kj[2] :
        kj \in { x \in (1..Len(hex)) \X (0..3) : (hex[x[1]] \div 2^(x[2])) % 2 = 1 } }

\* ImageHash.__sub__: the number of differing bits
Hamming(a, b) == Cardinality((a \ b) \cup (b \ a))

\* hashlib.sha256 of the bytes: equal bytes, equal digest
compute_file_hash(c) ==
    CASE c = "A" -> "sha256:A"
      [] c = "B" -> "sha256:B"
      [] c = "C" -> "sha256:C"
      [] c = "T" -> "sha256:T"
      [] OTHER -> "sha256:X"

compute_perceptual_hash(c) ==
    IF Decodable(c) THEN Some(HashToHex(phash(c))) ELSE Null

\* --------------------------------------------------------- path classifier
get_file_type(p) ==
    LET ext == lower(splitext(p)) IN
    IF ext \in IMAGE_EXTENSIONS THEN "image"
    ELSE IF ext \in VIDEO_EXTENSIONS THEN "video"
    ELSE "unknown"

\* the ascending sequence of a finite set of integers
RECURSIVE SortedSeq(_)
SortedSeq(S) ==
    IF S = {} THEN <<>>
    ELSE LET m == CHOOSE x \in S : \A y \in S : x <= y
         IN  <<m>> \o SortedSeq(S \ {m})

\* os.walk of the root, in path order
discover_files(d) ==
    SortedSeq({ p \in Paths :
                  /\ d[p] # NoFile
                  /\ ~IsHidden(p)
                  /\ lower(splitext(p)) \in IMAGE_EXTENSIONS \cup VIDEO_EXTENSIONS })

\* ------------------------------------------------------ metadata extractor
ProbeOutcomes == { "ok", "nonzero", "malformed", "timeout", "missing" }

\* what ffprobe can print when it exits with 0 and the output is not the
\* stream list expected: text that is not JSON, JSON that is not an object,
\* a video stream whose width or height is not a number, or whose width is null
MalformedOutputs == { "malformed", "not_object", "bad_width", "bad_height", "null_width" }

\* how the ffprobe run of extract_video_metadata can end
ProbeResults == ProbeOutcomes \cup MalformedOutputs

\* the exception that leaves extract_video_metadata: info.get on a value that
\* is not a dict raises AttributeError, int(None) raises TypeError, and the
\* except clauses name neither
ProbeRaises(probe) ==
    CASE probe = "not_object" -> "AttributeError"
      [] probe = "null_width" -> "TypeError"
      [] OTHER -> "-"

\* mutant: like width and height, perceptual_hash is set only when derived
extract_image_metadata_phash_if_any(p, c) ==
    LET base == [ filepath |-> p,
                  filename |-> Some(basename(p)),
                  original_filename |-> Some(basename(p)),
                  file_type |-> Some("image"),
                  file_size |-> Some(SizeOf(c)) ]
        dims == IF Opens(c)
                THEN [ width |-> Some(DimsOf(c)[1]), height |-> Some(DimsOf(c)[2]) ]
                ELSE <<>>
        exif == IF Opens(c) /\ HasExif(c)
                THEN [ exif_data |-> Some("{exif}") ]
                ELSE <<>>
        hashes == IF Decodable(c)
                  THEN [ file_hash |-> Some(compute_file_hash(c)),
                         perceptual_hash |-> compute_perceptual_hash(c) ]
                  ELSE [ file_hash |-> Some(compute_file_hash(c)) ]
    IN  base @@ dims @@ exif @@ hashes

extract_image_metadata(p, c) ==
    LET base == [ filepath |-> p,
                  filename |-> Some(basename(p)),
                  original_filename |-> Some(basename(p)),
                  file_type |-> Some("image"),
                  file_size |-> Some(SizeOf(c)) ]
        dims == IF Opens(c)
                THEN [ width |-> Some(DimsOf(c)[1]), height |-> Some(DimsOf(c)[2]) ]
                ELSE <<>>
        exif == IF Opens(c) /\ HasExif(c)
                THEN [ exif_data |-> Some("{exif}") ]
                ELSE <<>>
        hashes == [ file_hash |-> Some(compute_file_hash(c)),
                    perceptual_hash |-> compute_perceptual_hash(c) ]
    IN  base @@ dims @@ exif @@ hashes

extract_video_metadata(p, c, probe) ==
    LET base == [ filepath |-> p,
                  filename |-> Some(basename(p)),
                  original_filename |-> Some(basename(p)),
                  file_type |-> Some("video"),
                  file_size |-> Some(SizeOf(c)) ]
        dims == IF probe = "ok"
                THEN [ width |-> Some(DimsOf(c)[1]), height |-> Some(DimsOf(c)[2]) ]
                ELSE IF probe = "bad_height"
                THEN \* data["width"] is assigned before int(height) raises ValueError
                     [ width |-> Some(DimsOf(c)[1]) ]
                ELSE <<>>
    IN  base @@ dims @@ [ file_hash |-> Some(compute_file_hash(c)) ]

\* -------------------------------------------------------- junk classifier
\* A reason is [msg, n]; n is the N of "very small (N bytes)", 0 otherwise.
\* The "; "-joined string is the sequence of reasons.

\* mutant: the classifier returns at the first reason it finds
detect_junk_first_reason(p, c, file_size) ==
    LET fname == lower(basename(p)) IN
    IF file_size < JUNK_SIZE_THRESHOLD
    THEN [ is_junk |-> TRUE,
           reason |-> << [ msg |-> "very small (N bytes)", n |-> file_size ] >> ]
    ELSE IF HasJunkPattern(fname)
    THEN [ is_junk |-> TRUE,
           reason |-> << [ msg |-> "thumbnail/system file pattern", n |-> 0 ] >> ]
    ELSE IF lower(splitext(p)) \in IMAGE_EXTENSIONS /\ ~Verifies(c)
    THEN [ is_junk |-> TRUE,
           reason |-> << [ msg |-> "corrupted or unreadable image", n |-> 0 ] >> ]
    ELSE [ is_junk |-> FALSE, reason |-> <<>> ]

detect_junk(p, c, file_size) ==
    LET fname == lower(basename(p))
        small == IF file_size < JUNK_SIZE_THRESHOLD
                 THEN << [ msg |-> "very small (N bytes)", n |-> file_size ] >>
                 ELSE <<>>
        pattern == IF HasJunkPattern(fname)
                   THEN << [ msg |-> "thumbnail/system file pattern", n |-> 0 ] >>
                   ELSE <<>>
        corrupt == IF lower(splitext(p)) \in IMAGE_EXTENSIONS /\ ~Verifies(c)
                   THEN << [ msg |-> "corrupted or unreadable image", n |-> 0 ] >>
                   ELSE <<>>
        reasons == small \o pattern \o corrupt
    IN  [ is_junk |-> reasons # <<>>, reason |-> reasons ]

\* ---------------------------------------------------------------- the store
\* The columns of `files` (the three date columns are left out: no operation
\* modelled here reads them).
Columns ==
    { "filepath", "filename", "original_filename", "file_type", "file_size",
      "file_hash", "perceptual_hash", "width", "height", "exif_data",
      "description", "tags", "ai_analyzed", "is_duplicate", "duplicate_of",
      "is_junk", "junk_reason" }

\* the value of a column an INSERT does not name
ColumnDefault(k) ==
    IF k \in { "ai_analyzed", "is_duplicate", "is_junk" } THEN 0 ELSE Null

\* SELECT id FROM files WHERE filepath = ?
SelectByPath(fs, p) == { i \in DOMAIN fs : fs[i].filepath = p }

\* mutant: the row is replaced (INSERT OR REPLACE): columns the dict does not
\* name go back to their defaults
UpdateRowReplace(row, data) ==
    [k \in Columns |-> IF k = "filepath" THEN row[k]
                        ELSE IF k \in DOMAIN data THEN data[k] ELSE ColumnDefault(k)]

\* UPDATE files SET k = ?, ... WHERE filepath = ?  (every key of the dict but filepath)
UpdateRow(row, data) ==
    [k \in Columns |-> IF k \in DOMAIN data /\ k # "filepath" THEN data[k] ELSE row[k]]

\* INSERT INTO files (keys) VALUES (...)
InsertRow(data) ==
    [k \in Columns |-> IF k \in DOMAIN data THEN data[k] ELSE ColumnDefault(k)]

\* mutant: the lookup by path is skipped and every call inserts
upsert_always_insert(fs, data) ==
    [ files |-> Append(fs, InsertRow(data)), id |-> Len(fs) + 1 ]

\* database.upsert_file: the table afterwards and the id returned
upsert_file(fs, data) ==
    LET existing == SelectByPath(fs, data.filepath) IN
    IF existing # {}
    THEN LET file_id == CHOOSE i \in existing : TRUE
         IN  [ files |-> [fs EXCEPT ![file_id] = UpdateRow(fs[file_id], data)],
               id |-> file_id ]
    ELSE [ files |-> Append(fs, InsertRow(data)), id |-> Len(fs) + 1 ]

\* ------------------------------------------------------- duplicate resolver
\* mutant: the query has no "WHERE file_hash IS NOT NULL", and GROUP BY puts
\* the NULLs in one group
ExactGroupsWithNull(fs) ==
    { h \in { fs[i].file_hash : i \in DOMAIN fs } :
        Cardinality({ i \in DOMAIN fs : fs[i].file_hash = h }) > 1 }

\* the digests of GROUP BY file_hash HAVING COUNT(*) > 1
ExactGroups(fs) ==
    { h \in { fs[i].file_hash : i \in DOMAIN fs } :
        /\ h # Null
        /\ Cardinality({ i \in DOMAIN fs : fs[i].file_hash = h }) > 1 }

\* GROUP_CONCAT(id) of one group; the grouping scans idx_file_hash, whose
\* entries of one digest are in rowid order
GroupIds(fs, h) == SortedSeq({ i \in DOMAIN fs : fs[i].file_hash = h })

\* mutant: the last id of the group is kept as the original
OriginalIdLast(ids) == ids[Len(ids)]

\* original_id = ids[0]
OriginalId(ids) == ids[1]

\* for dup_id in ids[1:]
DupIds(ids) == { ids[k] : k \in 2..Len(ids) }

\* UPDATE files SET is_duplicate = 1, duplicate_of = ? WHERE id = ?
MarkExact(row, original_id) ==
    [row EXCEPT !.is_duplicate = 1, !.duplicate_of = Some(original_id)]

\* phase 1: exact duplicates
ExactPhase(fs) ==
    [i \in DOMAIN fs |->
        IF \E h \in ExactGroups(fs) : i \in DupIds(GroupIds(fs, h))
        THEN MarkExact(fs[i], OriginalId(GroupIds(fs, fs[i].file_hash)))
        ELSE fs[i]]

\* the descending sequence of a finite set of integers
RECURSIVE SortedSeqDesc(_)
SortedSeqDesc(S) ==
    IF S = {} THEN <<>>
    ELSE LET m == CHOOSE x \in S : \A y \in S : x >= y
         IN  <<m>> \o SortedSeqDesc(S \ {m})

\* mutant: the rows come newest first (ORDER BY id DESC)
PhashRowsDescending(fs) ==
    SortedSeqDesc({ i \in DOMAIN fs :
                      /\ fs[i].perceptual_hash # Null
                      /\ fs[i].is_duplicate = 0
                      /\ fs[i].file_type = Some("image") })

\* the ids of phash_rows; the query scans idx_is_duplicate, in rowid order
PhashRows(fs) ==
    SortedSeq({ i \in DOMAIN fs :
                  /\ fs[i].perceptual_hash # Null
                  /\ fs[i].is_duplicate = 0
                  /\ fs[i].file_type = Some("image") })

\* phash_list = [(id, hex_to_hash(perceptual_hash)), ...]
PhashList(fs) ==
    LET rows == PhashRows(fs) IN
    [k \in 1..Len(rows) |-> <<rows[k], hex_to_hash(fs[rows[k]].perceptual_hash[1])>>]

\* mutant: the threshold is exclusive
IsNearStrict(hash_a, hash_b) == Hamming(hash_a, hash_b) < NearDupThreshold

\* if distance <= 8
IsNear(hash_a, hash_b) == Hamming(hash_a, hash_b) <= NearDupThreshold

\* mutant: the UPDATE has no "AND is_duplicate = 0"
MarkNearUnguarded(fs, id_a, id_b) ==
    [fs EXCEPT ![id_b] = [@ EXCEPT !.is_duplicate = 1, !.duplicate_of = Some(id_a)]]

\* UPDATE files SET is_duplicate = 1, duplicate_of = ? WHERE id = ? AND is_duplicate = 0
MarkNear(fs, id_a, id_b) ==
    IF fs[id_b].is_duplicate = 0
    THEN [fs EXCEPT ![id_b] = [@ EXCEPT !.is_duplicate = 1, !.duplicate_of = Some(id_a)]]
    ELSE fs

\* mutant: the inner loop breaks after the first pair it marks
RECURSIVE NearLoopBreak(_, _, _, _)
NearLoopBreak(fs, list, i, j) ==
    IF i > Len(list) THEN fs
    ELSE IF j > Len(list) THEN NearLoopBreak(fs, list, i + 1, i + 2)
    ELSE IF IsNear(list[i][2], list[j][2])
         THEN NearLoopBreak(MarkNear(fs, list[i][1], list[j][1]), list, i + 1, i + 2)
         ELSE NearLoopBreak(fs, list, i, j + 1)

\* the nested loop over phash_list from pair (i, j) on, j > i
RECURSIVE NearLoop(_, _, _, _)
NearLoop(fs, list, i, j) ==
    IF i > Len(list) THEN fs
    ELSE IF j > Len(list) THEN NearLoop(fs, list, i + 1, i + 2)
    ELSE NearLoop(IF IsNear(list[i][2], list[j][2])
                  THEN MarkNear(fs, list[i][1], list[j][1])
                  ELSE fs,
                  list, i, j + 1)

\* the UPDATE statements the nested loop issues from pair (i, j) on, in
\* order, each with the is_duplicate flags of its two records at that moment
RECURSIVE NearStatements(_, _, _, _)
NearStatements(fs, list, i, j) ==
    IF i > Len(list) THEN <<>>
    ELSE IF j > Len(list) THEN NearStatements(fs, list, i + 1, i + 2)
    ELSE IF IsNear(list[i][2], list[j][2])
         THEN << [ id_a |-> list[i][1], id_b |-> list[j][1],
                   a_dup |-> fs[list[i][1]].is_duplicate,
                   b_dup |-> fs[list[j][1]].is_duplicate ] >>
              \o NearStatements(MarkNear(fs, list[i][1], list[j][1]), list, i, j + 1)
         ELSE NearStatements(fs, list, i, j + 1)

\* phase 2: near duplicates among the images phase 1 left unmarked
NearPhase(fs) == NearLoop(fs, PhashList(fs), 1, 2)

find_duplicates(fs) == NearPhase(ExactPhase(fs))

\* database.get_stats
RECURSIVE SumSizes(_)
SumSizes(fs) ==
    IF fs = <<>> THEN 0
    ELSE (IF Head(fs).file_size = Null THEN 0 ELSE Head(fs).file_size[1]) + SumSizes(Tail(fs))

get_stats(fs) ==
    [ total_files |-> Len(fs),
      images |-> Cardinality({ i \in DOMAIN fs : fs[i].file_type = Some("image") }),
      videos |-> Cardinality({ i \in DOMAIN fs : fs[i].file_type = Some("video") }),
      analyzed |-> Cardinality({ i \in DOMAIN fs : fs[i].ai_analyzed = 1 }),
      duplicates |-> Cardinality({ i \in DOMAIN fs : fs[i].is_duplicate = 1 }),
      junk |-> Cardinality({ i \in DOMAIN fs : fs[i].is_junk = 1 }),
      total_size |-> SumSizes(fs) ]

\* ------------------------------------------------------------------- state
VARIABLES
    disk,             \* path -> blob, or NoFile
    files,            \* the `files` table
    uncommitted,      \* rows written since the last conn.commit()
    pc,               \* where scan_directory is: idle, walk, exact, near, report, done
    all_files,        \* scan_directory: the discovered paths
    idx,              \* scan_directory: iterations of the walk loop completed
    files_found,
    files_processed,
    errors,           \* scan_directory: <<path, message>> of every caught exception
    raised,           \* the paths whose processing raised, in order (history)
    report,           \* the stats dict scan_directory returns, once built
    atStart,          \* the table as the scan found it (history)
    preResolve,       \* the table as find_duplicates found it (history)
    lastUpsert,       \* the last upsert_file call of the scan: its dict, the ids
                      \* that held the path before, the id returned (history)
    writes,           \* file writes so far
    scans,            \* scans started so far
    \* extract_video_frames
    fpc,              \* where the call is: idle, probe, loop, ffmpeg, check, except, return
    num_frames,
    duration,
    fi,               \* the loop index i
    tmp,              \* tmp.name of the current iteration
    frames,
    created_temps,
    tmpfs,            \* the temporary files that exist
    nonempty,         \* those of them that hold data
    made,             \* every temporary file the call created (history)
    probed,           \* how the duration probe ended (history)
    outcomes,         \* how each ffmpeg run ended (history)
    exc,              \* the exception on its way to the except clauses
    stamps,           \* the -ss timestamp of each ffmpeg run, <<numerator, denominator>> (history)
    \* detect_junk called on its own
    jarg,             \* the arguments of the last call: the path, its bytes, file_size
    jret,             \* what the call returned
    \* extract_video_metadata called on its own
    varg,             \* the arguments of the last call: the path, its bytes, the ffprobe result
    vret,             \* how the call ended: the exception raised, or the dict returned
    \* with get_connection() as conn: ...
    db,               \* the rows the database file holds (committed)
    conn,             \* the open connection: the rows it sees, its own writes included
    cpc,              \* where the context manager is: closed, body, commit, except, finally
    cexc,             \* the exception the block raised, on its way out
    cbefore,          \* the database file as the block found it (history)
    cwritten,         \* the rows the block wrote, in order (history)
    cout,             \* how the with statement ended: "-", or the exception it let out (history)
    blocks,           \* with-blocks entered so far
    \* rename_file, over one directory
    rdir,             \* file name -> the id of the record made for the file there, 0 if none
    recs,             \* the records: id -> [filepath, filename] (the directory part left out)
    rlast,            \* the last rename_file call: its arguments, the directory and the
                      \* records it found, how it ended (history)
    renames,          \* rename_file calls so far
    deletes,          \* files deleted so far
    \* analyze_all_unprocessed, over disk and files
    apc,              \* where the call is: idle, loop, done
    rows,             \* the ids its SELECT returned
    ai,               \* iterations of its loop completed
    results,          \* its results dict
    attempts,         \* each analyze_file call of the run: the id and how it ended (history)
    selectedFrom,     \* the table as the SELECT found it (history)
    runs,             \* analysis runs started so far
    \* find_duplicates called on a table of any content
    rtable,           \* the table the call found, once it was made
    rmid,             \* the table after phase 1
    rout,             \* the table when the call returned
    \* scan_directory over a long list of files, the store reduced to counts
    wpc,              \* where the call is: idle, body, batch, callback, resolve, done, raised
    wcallback,        \* whether a progress_callback was passed
    wtotal,           \* total = len(all_files)
    wi,               \* the loop index i
    wfound,           \* files_found
    wprocessed,       \* files_processed
    werrors,          \* the indices i whose iteration appended to errors, in order
    wupserts,         \* upsert_file calls that returned (history)
    wuncommitted,     \* upserts since the last conn.commit()
    wcommits,         \* conn.commit() calls so far (history)
    wcalls,           \* the progress_callback calls: <<current, total, msg>> (history)
    wstats,           \* the counters of the stats dict, once built
    \* discover_files over a directory tree
    tree,             \* the files under the scan root, once the call was made
    yielded,          \* the paths the generator yielded
    \* a scan and an annotation (analyze_file, api_update_file) on two connections
    edb,              \* the rows the database file holds (committed)
    eview,            \* the rows as the connection with uncommitted writes sees them
    elock,            \* the connection that holds the write lock: none, scan, edit
    spc,              \* where the scan is: idle, select, write, resolve
    sidx,             \* the scan's position in its list of paths
    sexisting,        \* what the SELECT of the scan's upsert_file returned
    rescans,          \* scans started so far
    upc,              \* where the annotation is: idle, select, write, commit
    upath,            \* the filepath of the row it read
    udata,            \* the dict it hands to upsert_file
    uexisting,        \* what the SELECT of its upsert_file returned
    edits,            \* annotations started so far
    eannot,           \* path -> the description, tags and ai_analyzed committed
                      \* annotations left (history)
    eids,             \* path -> the id its INSERT returned, 0 before (history)
    einter,           \* an annotation was committed between the SELECT and the
                      \* UPDATE of the scan's upsert of the same path (history)
    \* analyze_file, step by step
    kpc,              \* where the call is: idle, image, loop, finally, store, done
    kframes,          \* frames: the temporary files extract_video_frames returned
    ki,               \* frames analysed so far
    ktmp,             \* the temporary frame files that exist
    kexc,             \* the exception on its way out of the frame loop
    descriptions,     \* the descriptions collected from the frames
    kouts,            \* how the analysis of each frame ended (history)
    kout              \* how the call ended: result, error, raised

vars ==
    << disk, files, uncommitted, pc, all_files, idx, files_found, files_processed,
       errors, raised, report, atStart, preResolve, lastUpsert, writes, scans,
       fpc, num_frames, duration, fi, tmp, frames, created_temps, tmpfs, nonempty,
       made, probed, outcomes, exc, stamps, jarg, jret,
       varg, vret, db, conn, cpc, cexc, cbefore, cwritten, cout, blocks,
       rdir, recs, rlast, renames, deletes,
       apc, rows, ai, results, attempts, selectedFrom, runs,
       rtable, rmid, rout,
       wpc, wcallback, wtotal, wi, wfound, wprocessed, werrors, wupserts,
       wuncommitted, wcommits, wcalls, wstats, tree, yielded,
       edb, eview, elock, spc, sidx, sexisting, rescans, upc, upath, udata, uexisting,
       edits, eannot, eids, einter,
       kpc, kframes, ki, ktmp, kexc, descriptions, kouts, kout >>

scanVars ==
    << disk, files, uncommitted, pc, all_files, idx, files_found, files_processed,
       errors, raised, report, atStart, preResolve, lastUpsert, writes, scans >>

frameVars ==
    << fpc, num_frames, duration, fi, tmp, frames, created_temps, tmpfs, nonempty,
       made, probed, outcomes, exc, stamps >>

junkVars == << jarg, jret >>

\* the variables of the operations that are called on their own
probeVars == << varg, vret >>

connVars == << db, conn, cpc, cexc, cbefore, cwritten, cout, blocks >>

renameVars == << rdir, recs, rlast, renames, deletes >>

batchVars == << apc, rows, ai, results, attempts, selectedFrom, runs >>

resolveVars == << rtable, rmid, rout >>

\* the variables of the operations modelled further down
walkVars ==
    << wpc, wcallback, wtotal, wi, wfound, wprocessed, werrors, wupserts,
       wuncommitted, wcommits, wcalls, wstats >>

treeVars == << tree, yielded >>

editVars ==
    << edb, eview, elock, spc, sidx, sexisting, rescans, upc, upath, udata, uexisting,
       edits, eannot, eids, einter >>

cleanVars == << kpc, kframes, ki, ktmp, kexc, descriptions, kouts, kout >>

moreVars == << resolveVars, walkVars, treeVars, editVars, cleanVars >>

callVars == << junkVars, probeVars, connVars, renameVars, batchVars >>

toolVars == << callVars, moreVars >>

\* the variables of the scan but the file tree and the table
scanRest ==
    << uncommitted, pc, all_files, idx, files_found, files_processed, errors, raised,
       report, atStart, preResolve, lastUpsert, writes, scans >>

scanLocals == << all_files, idx, files_found, files_processed, errors, raised, report, atStart >>

Init ==
    /\ disk = [p \in Paths |-> NoFile]
    /\ files = <<>>
    /\ uncommitted = 0
    /\ pc = "idle"
    /\ all_files = <<>>
    /\ idx = 0
    /\ files_found = 0
    /\ files_processed = 0
    /\ errors = <<>>
    /\ raised = <<>>
    /\ report = Null
    /\ atStart = <<>>
    /\ preResolve = <<>>
    /\ lastUpsert = Null
    /\ writes = 0
    /\ scans = 0
    /\ fpc = "idle"
    /\ num_frames = 0
    /\ duration = 0
    /\ fi = 0
    /\ tmp = 0
    /\ frames = <<>>
    /\ created_temps = <<>>
    /\ tmpfs = {}
    /\ nonempty = {}
    /\ made = {}
    /\ probed = "-"
    /\ outcomes = <<>>
    /\ exc = "-"
    /\ stamps = <<>>
    /\ jarg = Null
    /\ jret = Null
    /\ varg = Null
    /\ vret = Null
    /\ db = <<>>
    /\ conn = Null
    /\ cpc = "closed"
    /\ cexc = "-"
    /\ cbefore = <<>>
    /\ cwritten = <<>>
    /\ cout = "-"
    /\ blocks = 0
    /\ rdir = [n \in { "a.jpg", "b.jpg", "c.jpg" } |-> 0]
    /\ recs = <<>>
    /\ rlast = Null
    /\ renames = 0
    /\ deletes = 0
    /\ apc = "idle"
    /\ rows = <<>>
    /\ ai = 0
    /\ results = [ processed |-> 0, errors |-> 0, total |-> 0 ]
    /\ attempts = <<>>
    /\ selectedFrom = <<>>
    /\ runs = 0
    /\ rtable = Null
    /\ rmid = <<>>
    /\ rout = <<>>
    /\ wpc = "idle"
    /\ wcallback = FALSE
    /\ wtotal = 0
    /\ wi = 0
    /\ wfound = 0
    /\ wprocessed = 0
    /\ werrors = <<>>
    /\ wupserts = 0
    /\ wuncommitted = 0
    /\ wcommits = 0
    /\ wcalls = <<>>
    /\ wstats = Null
    /\ tree = Null
    /\ yielded = {}
    /\ edb = <<>>
    /\ eview = Null
    /\ elock = "none"
    /\ spc = "idle"
    /\ sidx = 1
    /\ sexisting = {}
    /\ rescans = 0
    /\ upc = "idle"
    /\ upath = 0
    /\ udata = Null
    /\ uexisting = {}
    /\ edits = 0
    /\ eannot = [p \in Paths |-> << Null, Null, 0 >>]
    /\ eids = [p \in Paths |-> 0]
    /\ einter = FALSE
    /\ kpc = "idle"
    /\ kframes = <<>>
    /\ ki = 0
    /\ ktmp = {}
    /\ kexc = "-"
    /\ descriptions = <<>>
    /\ kouts = <<>>
    /\ kout = "-"

\* --------------------------------------------------------- the environment
\* Between scans a file is created or its bytes are replaced.
WriteFile(p, c) ==
    /\ pc = "idle"
    /\ writes < MaxWrites
    /\ disk[p] # c
    /\ disk' = [disk EXCEPT ![p] = c]
    /\ writes' = writes + 1
    /\ UNCHANGED << files, uncommitted, pc, scanLocals, preResolve, lastUpsert, scans >>
    /\ UNCHANGED << frameVars, toolVars >>

\* ---------------------------------------------------------- scan_directory
\* where an exception is raised while one file is processed
Faults == { "none", "extract", "junk", "upsert" }

\* conn = database.init_db(); all_files = list(discover_files(scan_dir))
StartScan ==
    /\ pc = "idle"
    /\ scans < MaxScans
    /\ scans' = scans + 1
    /\ all_files' = discover_files(disk)
    /\ idx' = 0
    /\ files_found' = 0
    /\ files_processed' = 0
    /\ errors' = <<>>
    /\ raised' = <<>>
    /\ report' = Null
    /\ atStart' = files
    /\ pc' = "walk"
    /\ UNCHANGED << disk, files, uncommitted, preResolve, lastUpsert, writes >>
    /\ UNCHANGED << frameVars, toolVars >>

\* the dict handed to upsert_file for one file
ScanData(p, c, probe) ==
    LET ftype == get_file_type(p)
        data == IF ftype = "image" THEN extract_image_metadata(p, c)
                ELSE extract_video_metadata(p, c, probe)
        junk == detect_junk(p, c, IF "file_size" \in DOMAIN data THEN data.file_size[1] ELSE 0)
    IN  data @@ [ is_junk |-> IF junk.is_junk THEN 1 ELSE 0,
                  junk_reason |-> IF junk.is_junk THEN Some(junk.reason) ELSE Null ]

\* if (i + 1) % config.BATCH_SIZE == 0: conn.commit()
BatchCommit(i, pending) == IF (i + 1) % BATCH_SIZE = 0 THEN 0 ELSE pending

\* mutant: the except clause sits outside the loop, so the first exception
\* ends the walk
ProcessFileAbort(fault, probe) ==
    /\ pc = "walk"
    /\ idx < Len(all_files)
    /\ fault = "none" \/ Len(errors) < MaxFaults
    /\ LET filepath == all_files[idx + 1]
           ftype == get_file_type(filepath)
       IN
       /\ files_found' = files_found + 1
       /\ idx' = IF ftype # "unknown" /\ fault # "none" THEN Len(all_files) ELSE idx + 1
       /\ IF ftype = "unknown"
          THEN \* continue: the batch commit is skipped too
               UNCHANGED << files, uncommitted, files_processed, errors, raised, lastUpsert >>
          ELSE IF fault # "none"
          THEN /\ errors' = Append(errors, <<filepath, fault>>)
               /\ raised' = Append(raised, filepath)
               /\ uncommitted' = BatchCommit(idx, uncommitted)
               /\ UNCHANGED << files, files_processed, lastUpsert >>
          ELSE LET data == ScanData(filepath, disk[filepath], probe)
                   up == upsert_file(files, data)
               IN  /\ files' = up.files
                   /\ lastUpsert' = Some([ data |-> data,
                                           before |-> SelectByPath(files, filepath),
                                           rows |-> Len(files),
                                           id |-> up.id ])
                   /\ files_processed' = files_processed + 1
                   /\ uncommitted' = BatchCommit(idx, uncommitted + 1)
                   /\ UNCHANGED << errors, raised >>
    /\ UNCHANGED << disk, pc, all_files, report, atStart, preResolve, writes, scans >>
    /\ UNCHANGED << frameVars, toolVars >>

\* one iteration of the walk loop
ProcessFile(fault, probe) ==
    /\ pc = "walk"
    /\ idx < Len(all_files)
    /\ fault = "none" \/ Len(errors) < MaxFaults
    /\ LET filepath == all_files[idx + 1]
           ftype == get_file_type(filepath)
       IN
       /\ files_found' = files_found + 1
       /\ idx' = idx + 1
       /\ IF ftype = "unknown"
          THEN \* continue: the batch commit is skipped too
               UNCHANGED << files, uncommitted, files_processed, errors, raised, lastUpsert >>
          ELSE IF fault # "none"
          THEN /\ errors' = Append(errors, <<filepath, fault>>)
               /\ raised' = Append(raised, filepath)
               /\ uncommitted' = BatchCommit(idx, uncommitted)
               /\ UNCHANGED << files, files_processed, lastUpsert >>
          ELSE LET data == ScanData(filepath, disk[filepath], probe)
                   up == upsert_file(files, data)
               IN  /\ files' = up.files
                   /\ lastUpsert' = Some([ data |-> data,
                                           before |-> SelectByPath(files, filepath),
                                           rows |-> Len(files),
                                           id |-> up.id ])
                   /\ files_processed' = files_processed + 1
                   /\ uncommitted' = BatchCommit(idx, uncommitted + 1)
                   /\ UNCHANGED << errors, raised >>
    /\ UNCHANGED << disk, pc, all_files, report, atStart, preResolve, writes, scans >>
    /\ UNCHANGED << frameVars, toolVars >>

\* mutant: the loop can be left, and the resolver started, before the last
\* discovered file was handled
FinalCommitEarly ==
    /\ pc = "walk"
    /\ uncommitted' = 0
    /\ pc' = "exact"
    /\ UNCHANGED << disk, files, scanLocals, preResolve, lastUpsert, writes, scans >>
    /\ UNCHANGED << frameVars, toolVars >>

\* conn.commit() after the loop
FinalCommit ==
    /\ pc = "walk"
    /\ idx = Len(all_files)
    /\ uncommitted' = 0
    /\ pc' = "exact"
    /\ UNCHANGED << disk, files, scanLocals, preResolve, lastUpsert, writes, scans >>
    /\ UNCHANGED << frameVars, toolVars >>

\* find_duplicates, phase 1
ResolveExact ==
    /\ pc = "exact"
    /\ preResolve' = files
    /\ files' = ExactPhase(files)
    /\ uncommitted' = Cardinality({ i \in DOMAIN files : files'[i] # files[i] })
    /\ pc' = "near"
    /\ UNCHANGED << disk, scanLocals, lastUpsert, writes, scans >>
    /\ UNCHANGED << frameVars, toolVars >>

\* find_duplicates, phase 2 and its conn.commit()
ResolveNear ==
    /\ pc = "near"
    /\ files' = NearPhase(files)
    /\ uncommitted' = 0
    /\ pc' = "report"
    /\ UNCHANGED << disk, scanLocals, preResolve, lastUpsert, writes, scans >>
    /\ UNCHANGED << frameVars, toolVars >>

\* stats = {...}; stats.update(database.get_stats(conn))
Report ==
    /\ pc = "report"
    /\ report' = Some([ files_found |-> files_found,
                        files_processed |-> files_processed,
                        errors |-> errors ] @@ get_stats(files))
    /\ pc' = "done"
    /\ UNCHANGED << disk, files, uncommitted, all_files, idx, files_found,
                    files_processed, errors, raised, atStart, preResolve, lastUpsert,
                    writes, scans >>
    /\ UNCHANGED << frameVars, toolVars >>

\* conn.close(); return stats: the call's locals are gone
Return ==
    /\ pc = "done"
    /\ pc' = "idle"
    /\ all_files' = <<>>
    /\ idx' = 0
    /\ files_found' = 0
    /\ files_processed' = 0
    /\ errors' = <<>>
    /\ raised' = <<>>
    /\ report' = Null
    /\ atStart' = <<>>
    /\ preResolve' = <<>>
    /\ lastUpsert' = Null
    /\ UNCHANGED << disk, files, uncommitted, writes, scans >>
    /\ UNCHANGED << frameVars, toolVars >>

Next ==
    \/ \E p \in Paths : \E c \in BlobsFor(p) : WriteFile(p, c)
    \/ StartScan
    \/ \E fault \in Faults, probe \in ProbeOutcomes : ProcessFile(fault, probe)
    \/ FinalCommit
    \/ ResolveExact
    \/ ResolveNear
    \/ Report
    \/ Return

Spec == Init /\ [][Next]_vars

\* ---------------------------------------------------- extract_video_frames
\* how one ffmpeg run can end: the frame written, no data written, or an
\* exception, after writing part of the frame or nothing
FfmpegOutcomes == { "written", "empty", "timeout", "timeout_partial", "error", "missing" }

\* the exception an outcome raises
RaisedBy(outcome) ==
    CASE outcome \in { "timeout", "timeout_partial" } -> "TimeoutExpired"
      [] outcome = "error" -> "SubprocessError"
      [] outcome = "missing" -> "FileNotFoundError"
      [] outcome = "oserror" -> "OSError"
      [] OTHER -> "-"

\* the durations ffprobe reports when it succeeds
Durations == { 6, 10 }

\* tempfile.NamedTemporaryFile: a name no file has or had
FreshName == CHOOSE t \in 1..(Cardinality(tmpfs \cup made) + 1) : t \notin tmpfs \cup made

\* the sequence without its first occurrence of x
RECURSIVE Remove(_, _)
Remove(seq, x) ==
    IF seq = <<>> THEN <<>>
    ELSE IF Head(seq) = x THEN Tail(seq)
    ELSE <<Head(seq)>> \o Remove(Tail(seq), x)

Range(seq) == { seq[k] : k \in DOMAIN seq }

\* mutant: FileNotFoundError reaches the clause written for it, which deletes nothing
CaughtByNarrow(e) ==
    IF e \in { "TimeoutExpired", "SubprocessError", "OSError" } THEN "cleanup" ELSE "log"

\* the except clause that catches e: the first one lists OSError, the base
\* class of FileNotFoundError, so the second clause is never entered
CaughtBy(e) ==
    IF e \in { "TimeoutExpired", "SubprocessError", "OSError", "FileNotFoundError" }
    THEN "cleanup"
    ELSE "log"

\* extract_video_frames(filepath, n) is called
CallFrames(n) ==
    /\ fpc = "idle"
    /\ num_frames' = n
    /\ frames' = <<>>
    /\ created_temps' = <<>>
    /\ fpc' = "probe"
    /\ UNCHANGED << duration, fi, tmp, tmpfs, nonempty, made, probed, outcomes, exc, stamps >>
    /\ UNCHANGED << scanVars, toolVars >>

\* the ffprobe run and the parse of its output
ProbeDuration(outcome, d) ==
    /\ fpc = "probe"
    /\ probed' = outcome
    /\ IF outcome \in { "timeout", "missing" }
       THEN /\ exc' = RaisedBy(outcome)
            /\ fpc' = "except"
            /\ UNCHANGED duration
       ELSE /\ duration' = IF outcome = "ok" THEN d ELSE DefaultDuration
            /\ fpc' = "loop"
            /\ UNCHANGED exc
    /\ UNCHANGED << num_frames, fi, tmp, frames, created_temps, tmpfs, nonempty, made,
                    outcomes, stamps >>
    /\ UNCHANGED << scanVars, toolVars >>

\* the loop head: the next temporary file is created, or the loop ends
NextFrame(outcome) ==
    /\ fpc = "loop"
    /\ IF fi >= num_frames
       THEN /\ fpc' = "return"
            /\ UNCHANGED << tmp, created_temps, tmpfs, made, exc >>
       ELSE IF outcome = "oserror"
       THEN /\ exc' = RaisedBy(outcome)
            /\ fpc' = "except"
            /\ UNCHANGED << tmp, created_temps, tmpfs, made >>
       ELSE /\ tmp' = FreshName
            /\ tmpfs' = tmpfs \cup { FreshName }
            /\ made' = made \cup { FreshName }
            /\ created_temps' = Append(created_temps, FreshName)
            /\ fpc' = "ffmpeg"
            /\ UNCHANGED exc
    /\ UNCHANGED << num_frames, duration, fi, frames, nonempty, probed, outcomes, stamps >>
    /\ UNCHANGED << scanVars, toolVars >>

\* the ffmpeg run of iteration i, at timestamp duration * (i + 1) / (num_frames + 1)
RunFfmpeg(outcome) ==
    /\ fpc = "ffmpeg"
    /\ outcomes' = Append(outcomes, outcome)
    /\ stamps' = Append(stamps, << duration * (fi + 1), num_frames + 1 >>)
    /\ nonempty' = IF outcome \in { "written", "timeout_partial" }
                   THEN nonempty \cup { tmp } ELSE nonempty
    /\ IF RaisedBy(outcome) # "-"
       THEN exc' = RaisedBy(outcome) /\ fpc' = "except"
       ELSE fpc' = "check" /\ UNCHANGED exc
    /\ UNCHANGED << num_frames, duration, fi, tmp, frames, created_temps, tmpfs, made, probed >>
    /\ UNCHANGED << scanVars, toolVars >>

\* if os.path.getsize(tmp.name) > 0: keep the frame, else delete it
CheckFrame ==
    /\ fpc = "check"
    /\ IF tmp \in nonempty
       THEN /\ frames' = Append(frames, tmp)
            /\ UNCHANGED << created_temps, tmpfs >>
       ELSE /\ tmpfs' = tmpfs \ { tmp }
            /\ created_temps' = Remove(created_temps, tmp)
            /\ UNCHANGED frames
    /\ fi' = fi + 1
    /\ fpc' = "loop"
    /\ UNCHANGED << num_frames, duration, tmp, nonempty, made, probed, outcomes, exc, stamps >>
    /\ UNCHANGED << scanVars, toolVars >>

\* the except clauses
HandleError ==
    /\ fpc = "except"
    /\ tmpfs' = IF CaughtBy(exc) = "cleanup"
                THEN tmpfs \ (Range(created_temps) \ Range(frames))
                ELSE tmpfs
    /\ exc' = "-"
    /\ fpc' = "return"
    /\ UNCHANGED << num_frames, duration, fi, tmp, frames, created_temps, nonempty, made,
                    probed, outcomes, stamps >>
    /\ UNCHANGED << scanVars, toolVars >>

\* return frames: the returned files are the caller's from here on (what
\* analyze_file does with them is modelled with analyze_file, further down)
\* and the call's locals are gone
ConsumeFrames ==
    /\ fpc = "return"
    /\ tmpfs' = tmpfs \ Range(frames)
    /\ nonempty' = nonempty \cap tmpfs'
    /\ fpc' = "idle"
    /\ num_frames' = 0
    /\ duration' = 0
    /\ fi' = 0
    /\ tmp' = 0
    /\ frames' = <<>>
    /\ created_temps' = <<>>
    /\ made' = {}
    /\ probed' = "-"
    /\ outcomes' = <<>>
    /\ stamps' = <<>>
    /\ UNCHANGED exc
    /\ UNCHANGED << scanVars, toolVars >>

NextFrames ==
    \/ \E n \in 1..MaxFrames : CallFrames(n)
    \/ \E outcome \in ProbeOutcomes, d \in Durations : ProbeDuration(outcome, d)
    \/ \E outcome \in { "ok", "oserror" } : NextFrame(outcome)
    \/ \E outcome \in FfmpegOutcomes : RunFfmpeg(outcome)
    \/ CheckFrame
    \/ HandleError
    \/ ConsumeFrames

SpecFrames == Init /\ [][NextFrames]_vars

\* ------------------------------------------------- detect_junk on its own
\* the file sizes a caller passes: around the threshold, and far from it
Sizes == { 0, 500, JUNK_SIZE_THRESHOLD - 1, JUNK_SIZE_THRESHOLD,
           JUNK_SIZE_THRESHOLD + 1, 20000 }

\* is_junk, junk_reason = detect_junk(filepath, file_size)
DetectJunk(p, c, size) ==
    /\ jarg' = Some([ p |-> p, c |-> c, size |-> size ])
    /\ jret' = Some(detect_junk(p, c, size))
    /\ UNCHANGED << scanVars, frameVars, moreVars, probeVars, connVars, renameVars, batchVars >>

NextJunk == \E p \in Paths, c \in Blobs, size \in Sizes : DetectJunk(p, c, size)

SpecJunk == Init /\ [][NextJunk]_vars

\* ------------------------------------- extract_video_metadata on its own
\* data = extract_video_metadata(filepath)
ExtractVideo(p, c, probe) ==
    /\ varg' = Some([ p |-> p, c |-> c, probe |-> probe ])
    /\ vret' = IF ProbeRaises(probe) # "-"
               THEN Some([ raised |-> ProbeRaises(probe), data |-> Null ])
               ELSE Some([ raised |-> "-", data |-> Some(extract_video_metadata(p, c, probe)) ])
    /\ UNCHANGED << scanVars, frameVars, moreVars, junkVars, connVars, renameVars, batchVars >>

NextProbe == \E p \in Paths, c \in Blobs, probe \in ProbeResults : ExtractVideo(p, c, probe)

SpecProbe == Init /\ [][NextProbe]_vars

\* ------------------------------------------------- database.get_connection
\* The body of the with-block writes rows through conn.execute (sqlite3 opens
\* a transaction at the first write) and ends normally or by raising; it does
\* not call conn.commit() or conn.rollback() itself.
RowValues == { 1, 2 }

\* how the body can end: normally, by an Exception, or by an exception that
\* is not an Exception (KeyboardInterrupt, SystemExit)
BodyEnds == { "normal", "Exception", "BaseException" }

\* conn = sqlite3.connect(db_path); yield conn
EnterBlock ==
    /\ cpc = "closed"
    /\ blocks < MaxBlocks
    /\ blocks' = blocks + 1
    /\ conn' = Some(db)
    /\ cbefore' = db
    /\ cwritten' = <<>>
    /\ cout' = "-"
    /\ cpc' = "body"
    /\ UNCHANGED << db, cexc >>
    /\ UNCHANGED << scanVars, frameVars, moreVars, junkVars, probeVars, renameVars, batchVars >>

\* the body: conn.execute("INSERT ...")
BodyWrite(v) ==
    /\ cpc = "body"
    /\ Len(cwritten) < MaxBlockWrites
    /\ conn' = Some(Append(conn[1], v))
    /\ cwritten' = Append(cwritten, v)
    /\ UNCHANGED << db, cpc, cexc, cbefore, cout, blocks >>
    /\ UNCHANGED << scanVars, frameVars, moreVars, junkVars, probeVars, renameVars, batchVars >>

\* the body ends: control returns to the generator after the yield, or the
\* exception is thrown into it at the yield
BodyEnd(how) ==
    /\ cpc = "body"
    /\ cexc' = IF how = "normal" THEN "-" ELSE how
    /\ cpc' = CASE how = "normal" -> "commit"
                [] how = "Exception" -> "except"
                [] OTHER -> "finally"
    /\ UNCHANGED << db, conn, cbefore, cwritten, cout, blocks >>
    /\ UNCHANGED << scanVars, frameVars, moreVars, junkVars, probeVars, renameVars, batchVars >>

\* mutant: the generator ends after the yield without committing
ExitWithoutCommit ==
    /\ cpc = "commit"
    /\ cpc' = "finally"
    /\ UNCHANGED << db, conn, cexc, cbefore, cwritten, cout, blocks >>
    /\ UNCHANGED << scanVars, frameVars, moreVars, junkVars, probeVars, renameVars, batchVars >>

\* conn.commit() after the yield
CommitOnExit ==
    /\ cpc = "commit"
    /\ db' = conn[1]
    /\ cpc' = "finally"
    /\ UNCHANGED << conn, cexc, cbefore, cwritten, cout, blocks >>
    /\ UNCHANGED << scanVars, frameVars, moreVars, junkVars, probeVars, renameVars, batchVars >>

\* except Exception: conn.rollback(); raise
RollbackOnError ==
    /\ cpc = "except"
    /\ conn' = Some(db)
    /\ cpc' = "finally"
    /\ UNCHANGED << db, cexc, cbefore, cwritten, cout, blocks >>
    /\ UNCHANGED << scanVars, frameVars, moreVars, junkVars, probeVars, renameVars, batchVars >>

\* finally: conn.close(), which drops what the connection has not committed;
\* the exception, if any, goes on to the caller
CloseConnection ==
    /\ cpc = "finally"
    /\ conn' = Null
    /\ cout' = cexc
    /\ cexc' = "-"
    /\ cpc' = "closed"
    /\ UNCHANGED << db, cbefore, cwritten, blocks >>
    /\ UNCHANGED << scanVars, frameVars, moreVars, junkVars, probeVars, renameVars, batchVars >>

NextConn ==
    \/ EnterBlock
    \/ \E v \in RowValues : BodyWrite(v)
    \/ \E how \in BodyEnds : BodyEnd(how)
    \/ CommitOnExit
    \/ RollbackOnError
    \/ CloseConnection

SpecConn == Init /\ [][NextConn]_vars

\* ------------------------------------------------- ai_analyzer.rename_file
\* One directory; a path is written as the file name in it.
DirNames == { "a.jpg", "b.jpg", "c.jpg" }

\* the names files are created under
CreatedNames == { "a.jpg", "c.jpg" }

\* the new_name arguments
NewNames == { "b.jpg", "b", " b.jpg ", "c.jpg", "sub/b.jpg", "a..jpg", "", "  " }

\* os.sep in new_name
HasSeparator(n) == n = "sub/b.jpg"

\* ".." in new_name
HasDotDot(n) == n = "a..jpg"

\* new_name.strip()
strip(n) ==
    CASE n = " b.jpg " -> "b.jpg"
      [] n = "  " -> ""
      [] OTHER -> n

\* new_name + old_ext when os.path.splitext(new_name)[1] is empty
WithExtension(n) == IF n = "b" THEN "b.jpg" ELSE n

\* a file is created and a scan stores it: upsert_file by path
CreateAndScan(n) ==
    /\ rdir[n] = 0
    /\ LET existing == { i \in DOMAIN recs : recs[i].filepath = n } IN
       IF existing # {}
       THEN /\ rdir' = [rdir EXCEPT ![n] = CHOOSE i \in existing : TRUE]
            /\ UNCHANGED recs
       ELSE /\ rdir' = [rdir EXCEPT ![n] = Len(recs) + 1]
            /\ recs' = Append(recs, [ filepath |-> n, filename |-> n ])
    /\ rlast' = Null
    /\ UNCHANGED << renames, deletes >>
    /\ UNCHANGED << scanVars, frameVars, moreVars, junkVars, probeVars, connVars, batchVars >>

\* a file is deleted from disk; its record stays
DeleteFile(n) ==
    /\ rdir[n] # 0
    /\ deletes < MaxDeletes
    /\ deletes' = deletes + 1
    /\ rdir' = [rdir EXCEPT ![n] = 0]
    /\ rlast' = Null
    /\ UNCHANGED << recs, renames >>
    /\ UNCHANGED << scanVars, frameVars, moreVars, junkVars, probeVars, connVars, batchVars >>

\* how the call ends and what it leaves: the validation chain, os.rename,
\* then the UPDATE, which the UNIQUE constraint on filepath rejects when
\* another record holds new_path
rename_file(dir, rs, file_id, new_name, os_ok) ==
    LET unchanged(kind, msg) == [ kind |-> kind, msg |-> msg, dir |-> dir, recs |-> rs ] IN
    IF file_id \notin DOMAIN rs
    THEN unchanged("error", "File not found in database")
    ELSE LET old_path == rs[file_id].filepath
             name == WithExtension(strip(new_name))
         IN
         IF dir[old_path] = 0
         THEN unchanged("error", "File not found on disk")
         ELSE IF HasSeparator(new_name) \/ HasDotDot(new_name)
         THEN unchanged("error", "Invalid filename")
         ELSE IF strip(new_name) = ""
         THEN unchanged("error", "Filename cannot be empty")
         ELSE IF dir[name] # 0
         THEN unchanged("error", "File already exists")
         ELSE IF ~os_ok
         THEN unchanged("error", "Rename failed")
         ELSE LET moved == [dir EXCEPT ![old_path] = 0, ![name] = dir[old_path]] IN
              IF \E j \in DOMAIN rs : j # file_id /\ rs[j].filepath = name
              THEN [ kind |-> "raised", msg |-> "IntegrityError", dir |-> moved, recs |-> rs ]
              ELSE [ kind |-> "success", msg |-> name, dir |-> moved,
                     recs |-> [rs EXCEPT ![file_id] = [ filepath |-> name, filename |-> name ]] ]

RenameFile(file_id, new_name, os_ok) ==
    /\ renames < MaxRenames
    /\ renames' = renames + 1
    /\ LET r == rename_file(rdir, recs, file_id, new_name, os_ok) IN
       /\ rdir' = r.dir
       /\ recs' = r.recs
       /\ rlast' = Some([ file_id |-> file_id, new_name |-> new_name,
                           dir |-> rdir, recs |-> recs,
                           kind |-> r.kind, msg |-> r.msg ])
    /\ UNCHANGED deletes
    /\ UNCHANGED << scanVars, frameVars, moreVars, junkVars, probeVars, connVars, batchVars >>

NextRename ==
    \/ \E n \in CreatedNames : CreateAndScan(n)
    \/ \E n \in DirNames : DeleteFile(n)
    \/ \E file_id \in 1..3, new_name \in NewNames, os_ok \in BOOLEAN :
          RenameFile(file_id, new_name, os_ok)

SpecRename == Init /\ [][NextRename]_vars

\* ------------------------------------- ai_analyzer.analyze_all_unprocessed
\* the table a scan of the tree d leaves in an empty store: every discovered
\* file upserted in walk order
RECURSIVE ScanAllFiles(_, _, _)
ScanAllFiles(fs, d, list) ==
    IF list = <<>> THEN fs
    ELSE ScanAllFiles(upsert_file(fs, ScanData(Head(list), d[Head(list)], "ok")).files,
                      d, Tail(list))

\* a scan has stored the tree d; the files of `gone` were deleted afterwards
LoadScan(d, gone) ==
    /\ apc = "idle"
    /\ runs = 0
    /\ files = <<>>
    /\ files' = find_duplicates(ScanAllFiles(<<>>, d, discover_files(d)))
    /\ files' # <<>>
    /\ disk' = [p \in Paths |-> IF p \in gone THEN NoFile ELSE d[p]]
    /\ UNCHANGED batchVars
    /\ UNCHANGED << scanRest, frameVars, moreVars, junkVars, probeVars, connVars, renameVars >>

\* how the vision service answers: with an analysis, or not at all; either
\* way analyze_with_vision returns a dict with a description
VisionOutcomes == { "analysis", "failure" }

\* the result of analysing one image or the frames of one video
VisionResult(vision) ==
    [ description |-> Some(IF vision = "analysis" THEN "description" ELSE "[Error: ...]"),
      tags |-> Some(IF vision = "analysis" THEN "[tags]" ELSE "[]") ]

\* analyze_file: how the call ends (a result, an error result, an exception)
\* and the table it leaves
analyze_file(fs, d, file_id, frames_ok, vision) ==
    IF file_id \notin DOMAIN fs
    THEN [ kind |-> "error", files |-> fs ]
    ELSE LET filepath == fs[file_id].filepath IN
         IF d[filepath] = NoFile
         THEN [ kind |-> "error", files |-> fs ]
         ELSE IF fs[file_id].file_type = Some("image") /\ ~Decodable(d[filepath])
         THEN \* image_to_base64: Image.open or img.save raises
              [ kind |-> "raised", files |-> fs ]
         ELSE IF fs[file_id].file_type = Some("video") /\ ~frames_ok
         THEN [ kind |-> "error", files |-> fs ]
         ELSE IF fs[file_id].file_type \notin { Some("image"), Some("video") }
         THEN [ kind |-> "error", files |-> fs ]
         ELSE [ kind |-> "result",
                files |-> upsert_file(fs, [ filepath |-> filepath, ai_analyzed |-> 1 ]
                                            @@ VisionResult(vision)).files ]

\* mutant: the SELECT leaves out the is_junk condition
SelectUnprocessedAnyJunk(fs) ==
    SortedSeq({ i \in DOMAIN fs : fs[i].ai_analyzed = 0 })

\* SELECT id, filepath FROM files WHERE ai_analyzed = 0 AND is_junk = 0
SelectUnprocessed(fs) ==
    SortedSeq({ i \in DOMAIN fs : fs[i].ai_analyzed = 0 /\ fs[i].is_junk = 0 })

\* rows = ...fetchall(); total = len(rows); results = {...}
StartAnalysis ==
    /\ apc = "idle"
    /\ files # <<>>
    /\ runs < MaxRuns
    /\ runs' = runs + 1
    /\ rows' = SelectUnprocessed(files)
    /\ results' = [ processed |-> 0, errors |-> 0, total |-> Len(rows') ]
    /\ ai' = 0
    /\ attempts' = <<>>
    /\ selectedFrom' = files
    /\ apc' = "loop"
    /\ UNCHANGED << disk, files >>
    /\ UNCHANGED << scanRest, frameVars, moreVars, junkVars, probeVars, connVars, renameVars >>

\* one iteration: analyze_file inside try / except Exception
AnalyzeNext(frames_ok, vision) ==
    /\ apc = "loop"
    /\ ai < Len(rows)
    /\ LET r == analyze_file(files, disk, rows[ai + 1], frames_ok, vision) IN
       /\ files' = r.files
       /\ results' = IF r.kind = "result"
                      THEN [results EXCEPT !.processed = @ + 1]
                      ELSE [results EXCEPT !.errors = @ + 1]
       /\ attempts' = Append(attempts, [ id |-> rows[ai + 1], kind |-> r.kind ])
    /\ ai' = ai + 1
    /\ UNCHANGED << disk, apc, rows, selectedFrom, runs >>
    /\ UNCHANGED << scanRest, frameVars, moreVars, junkVars, probeVars, connVars, renameVars >>

\* the loop is over
FinishAnalysis ==
    /\ apc = "loop"
    /\ ai = Len(rows)
    /\ apc' = "done"
    /\ UNCHANGED << disk, files, rows, ai, results, attempts, selectedFrom, runs >>
    /\ UNCHANGED << scanRest, frameVars, moreVars, junkVars, probeVars, connVars, renameVars >>

\* return results
ReturnAnalysis ==
    /\ apc = "done"
    /\ apc' = "idle"
    /\ rows' = <<>>
    /\ ai' = 0
    /\ results' = [ processed |-> 0, errors |-> 0, total |-> 0 ]
    /\ attempts' = <<>>
    /\ selectedFrom' = <<>>
    /\ UNCHANGED << disk, files, runs >>
    /\ UNCHANGED << scanRest, frameVars, moreVars, junkVars, probeVars, connVars, renameVars >>

NextAnalyze ==
    \/ /\ files = <<>>
       /\ \E d \in [Paths -> Blobs \cup { NoFile }], gone \in { {} } \cup { { p } : p \in Paths } :
             /\ \A p \in Paths : d[p] \in BlobsFor(p) \cup { NoFile }
             /\ LoadScan(d, gone)
    \/ StartAnalysis
    \/ \E frames_ok \in BOOLEAN, vision \in VisionOutcomes : AnalyzeNext(frames_ok, vision)
    \/ FinishAnalysis
    \/ ReturnAnalysis

SpecAnalyze == Init /\ [][NextAnalyze]_vars

\* ------------------------------------- find_duplicates on any table content
\* The schema lets file_hash and perceptual_hash be NULL on a row of either
\* kind; the tables here hold every combination.
HashChoices == { Null, Some(compute_file_hash("A")) }

PhashChoices == { Null, Some(HashToHex(phash("A"))), Some(HashToHex(phash("C"))) }

RowChoices == HashChoices \X PhashChoices \X { "image", "video" }

\* the row INSERTed for path p with the three columns of the choice
StoredRow(p, ch) ==
    InsertRow([ filepath |-> p, filename |-> Some("f"), file_type |-> Some(ch[3]),
                file_hash |-> ch[1], perceptual_hash |-> ch[2] ])

\* find_duplicates(conn): phase 1, then phase 2, then the commit
ResolveTable(t) ==
    /\ rtable = Null
    /\ rtable' = Some(t)
    /\ rmid' = ExactPhase(t)
    /\ rout' = find_duplicates(t)
    /\ UNCHANGED << scanVars, frameVars, callVars, walkVars, treeVars, editVars, cleanVars >>

NextResolve ==
    /\ rtable = Null
    /\ \E n \in 0..MaxRows : \E t \in [1..n -> RowChoices] :
          ResolveTable([p \in 1..n |-> StoredRow(p, t[p])])

SpecResolve == Init /\ [][NextResolve]_vars

\* ------------------------------------- scan_directory over a long file list
\* The loop of scan_directory with its counters, its commits and its progress
\* callback; a file is its index in all_files and the store is the number of
\* rows written since the last commit.  discover_files yields only paths
\* get_file_type classifies, so the `continue` of the loop is never taken.

\* how one iteration ends: the record is upserted, an exception is raised
\* before or by the upsert, or the progress callback raises
WalkOutcomes == { "ok", "raise", "callback_raise" }

\* if progress_callback and (i + 1) % 10 == 0
CallbackDue(cb, i) == cb /\ (i + 1) % 10 = 0

\* all_files = list(discover_files(scan_dir)); total = len(all_files)
CallScan(n, cb) ==
    /\ wpc = "idle"
    /\ wtotal' = n
    /\ wcallback' = cb
    /\ wpc' = "body"
    /\ UNCHANGED << wi, wfound, wprocessed, werrors, wupserts, wuncommitted, wcommits,
                    wcalls, wstats >>
    /\ UNCHANGED << scanVars, frameVars, callVars, resolveVars, treeVars, editVars, cleanVars >>

\* the try statement of one iteration
WalkFile(outcome) ==
    /\ wpc = "body"
    /\ wi < wtotal
    /\ outcome = "callback_raise" => CallbackDue(wcallback, wi)
    /\ outcome # "ok" => Len(werrors) < MaxRaises
    /\ wfound' = wfound + 1
    /\ IF outcome = "raise"
       THEN \* the exception leaves the try before upsert_file returns
            /\ werrors' = Append(werrors, wi)
            /\ UNCHANGED << wprocessed, wupserts, wuncommitted, wcalls >>
       ELSE /\ wupserts' = wupserts + 1
            /\ wuncommitted' = wuncommitted + 1
            /\ wprocessed' = wprocessed + 1
            /\ wcalls' = IF CallbackDue(wcallback, wi)
                         THEN Append(wcalls, <<wi + 1, wtotal, "">>)
                         ELSE wcalls
            \* except Exception catches what the callback raises
            /\ werrors' = IF outcome = "callback_raise" THEN Append(werrors, wi)
                          ELSE werrors
    /\ wpc' = "batch"
    /\ UNCHANGED << wcallback, wtotal, wi, wcommits, wstats >>
    /\ UNCHANGED << scanVars, frameVars, callVars, resolveVars, treeVars, editVars, cleanVars >>

\* mutant: the batch commit sits inside the try, after the upsert, and is
\* skipped when the iteration raised
WalkBatchInsideTry ==
    /\ wpc = "batch"
    /\ IF (wi + 1) % BATCH_SIZE = 0 /\ ~(werrors # <<>> /\ werrors[Len(werrors)] = wi)
       THEN wuncommitted' = 0 /\ wcommits' = wcommits + 1
       ELSE UNCHANGED << wuncommitted, wcommits >>
    /\ wi' = wi + 1
    /\ wpc' = "body"
    /\ UNCHANGED << wcallback, wtotal, wfound, wprocessed, werrors, wupserts, wcalls, wstats >>
    /\ UNCHANGED << scanVars, frameVars, callVars, resolveVars, treeVars, editVars, cleanVars >>

\* if (i + 1) % config.BATCH_SIZE == 0: conn.commit(), and the next i
WalkBatch ==
    /\ wpc = "batch"
    /\ IF (wi + 1) % BATCH_SIZE = 0
       THEN wuncommitted' = 0 /\ wcommits' = wcommits + 1
       ELSE UNCHANGED << wuncommitted, wcommits >>
    /\ wi' = wi + 1
    /\ wpc' = "body"
    /\ UNCHANGED << wcallback, wtotal, wfound, wprocessed, werrors, wupserts, wcalls, wstats >>
    /\ UNCHANGED << scanVars, frameVars, callVars, resolveVars, treeVars, editVars, cleanVars >>

\* conn.commit() after the loop
WalkFlush ==
    /\ wpc = "body"
    /\ wi = wtotal
    /\ wuncommitted' = 0
    /\ wcommits' = wcommits + 1
    /\ wpc' = "callback"
    /\ UNCHANGED << wcallback, wtotal, wi, wfound, wprocessed, werrors, wupserts, wcalls,
                    wstats >>
    /\ UNCHANGED << scanVars, frameVars, callVars, resolveVars, treeVars, editVars, cleanVars >>

\* if progress_callback: progress_callback(total, total, "Detecting duplicates...");
\* nothing catches what this call raises
FinalCallback(raises) ==
    /\ wpc = "callback"
    /\ raises => wcallback
    /\ wcalls' = IF wcallback
                 THEN Append(wcalls, <<wtotal, wtotal, "Detecting duplicates...">>)
                 ELSE wcalls
    /\ wpc' = IF raises THEN "raised" ELSE "resolve"
    /\ UNCHANGED << wcallback, wtotal, wi, wfound, wprocessed, werrors, wupserts,
                    wuncommitted, wcommits, wstats >>
    /\ UNCHANGED << scanVars, frameVars, callVars, resolveVars, treeVars, editVars, cleanVars >>

\* find_duplicates(conn), with its own commit, and the stats dict
WalkResolve ==
    /\ wpc = "resolve"
    /\ wcommits' = wcommits + 1
    /\ wstats' = Some([ files_found |-> wfound, files_processed |-> wprocessed,
                        errors |-> Len(werrors) ])
    /\ wpc' = "done"
    /\ UNCHANGED << wcallback, wtotal, wi, wfound, wprocessed, werrors, wupserts,
                    wuncommitted, wcalls >>
    /\ UNCHANGED << scanVars, frameVars, callVars, resolveVars, treeVars, editVars, cleanVars >>

NextWalk ==
    \/ \E n \in 0..MaxWalk, cb \in BOOLEAN : CallScan(n, cb)
    \/ \E outcome \in WalkOutcomes : WalkFile(outcome)
    \/ WalkBatch
    \/ WalkFlush
    \/ \E raises \in BOOLEAN : FinalCallback(raises)
    \/ WalkResolve

SpecWalk == Init /\ [][NextWalk]_vars

\* --------------------------------------- discover_files over a directory tree
\* A name is the sequence of its characters; a file is the sequence of the
\* names from the scan root down to it; a tree is a set of files.  Symbolic
\* links and unreadable directories are left out.
TreeFileNames ==
    { << "a", ".", "j", "p", "g" >>,
      << "B", ".", "J", "P", "G" >>,
      << ".", "c", ".", "j", "p", "g" >>,
      << "n", ".", "t", "x", "t" >>,
      << "v", ".", "M", "o", "V" >>,
      << ".", "p", "n", "g" >>,
      << "g", "i", "f" >> }

TreeDirNames == { << "e", ".", "j", "p", "g" >>, << ".", "h" >> }

\* the files a tree may hold: up to MaxDepth directories deep
TreeFiles ==
    { dirs \o << f >> :
        dirs \in UNION { [1..n -> TreeDirNames] : n \in 0..MaxDepth }, f \in TreeFileNames }

\* str.startswith(".")
startswith_dot(name) == Len(name) > 0 /\ name[1] = "."

\* str.lower(), character by character
lower_char(ch) ==
    CASE ch = "B" -> "b" [] ch = "J" -> "j" [] ch = "P" -> "p" [] ch = "G" -> "g"
      [] ch = "M" -> "m" [] ch = "V" -> "v" [] OTHER -> ch

lower_name(name) == [k \in 1..Len(name) |-> lower_char(name[k])]

\* the characters of a sequence as one string
RECURSIVE JoinChars(_)
JoinChars(cs) == IF cs = <<>> THEN "" ELSE cs[1] \o JoinChars(Tail(cs))

\* os.path.join(root, ..., fname): the names with "/" between them
RECURSIVE JoinPath(_)
JoinPath(path) ==
    IF Len(path) = 1 THEN path[1]
    ELSE path[1] \o << "/" >> \o JoinPath(Tail(path))

\* os.path.splitext(p)[1]: from the last dot after the last separator, unless
\* only dots come before it in the last component
path_splitext(cs) ==
    LET seps == { k \in 1..Len(cs) : cs[k] = "/" }
        sepIndex == IF seps = {} THEN 0 ELSE CHOOSE k \in seps : \A m \in seps : m <= k
        dots == { k \in 1..Len(cs) : cs[k] = "." }
        dotIndex == IF dots = {} THEN 0 ELSE CHOOSE k \in dots : \A m \in dots : m <= k
    IN  IF dotIndex > sepIndex /\ \E k \in (sepIndex + 1)..(dotIndex - 1) : cs[k] # "."
        THEN SubSeq(cs, dotIndex, Len(cs))
        ELSE <<>>

\* get_file_type(filepath) on a joined path
path_file_type(cs) ==
    LET ext == JoinChars(lower_name(path_splitext(cs))) IN
    IF ext \in IMAGE_EXTENSIONS THEN "image"
    ELSE IF ext \in VIDEO_EXTENSIONS THEN "video"
    ELSE "unknown"

\* os.walk: the subdirectories and the files of one directory of the tree
ListDirs(t, root) ==
    { q[Len(root) + 1] :
        q \in { f \in t : Len(f) > Len(root) + 1 /\ SubSeq(f, 1, Len(root)) = root } }

ListFiles(t, root) ==
    { q[Len(root) + 1] :
        q \in { f \in t : Len(f) = Len(root) + 1 /\ SubSeq(f, 1, Len(root)) = root } }

\* mutant: the hidden directories are not taken out of dirs
KeepAllDirs(dirs) == dirs

\* dirs[:] = [d for d in dirs if not d.startswith(".")]
PruneDirs(dirs) == { d \in dirs : ~startswith_dot(d) }

\* the body of the for loop over os.walk, from directory root down
RECURSIVE WalkFrom(_, _)
WalkFrom(t, root) ==
    { root \o << fname >> :
        fname \in { f \in ListFiles(t, root) :
                      /\ ~startswith_dot(f)
                      /\ JoinChars(lower_name(path_splitext(f)))
                            \in IMAGE_EXTENSIONS \cup VIDEO_EXTENSIONS } }
    \cup UNION { WalkFrom(t, root \o << d >>) : d \in PruneDirs(ListDirs(t, root)) }

\* list(discover_files(scan_dir)), as a set: the order is the file system's
DiscoverTree(t) ==
    /\ tree' = Some(t)
    /\ yielded' = WalkFrom(t, <<>>)
    /\ UNCHANGED << scanVars, frameVars, callVars, resolveVars, walkVars, editVars, cleanVars >>

\* the trees of up to MaxEntries files
RECURSIVE TreesOf(_)
TreesOf(n) ==
    IF n = 0 THEN { {} }
    ELSE LET smaller == TreesOf(n - 1)
         IN  smaller \cup { t \cup { f } : t \in smaller, f \in TreeFiles }

NextDiscover ==
    /\ tree = Null
    /\ \E t \in TreesOf(MaxEntries) : DiscoverTree(t)

SpecDiscover == Init /\ [][NextDiscover]_vars

\* ------------------------------- a scan and an annotation on two connections
\* scan_directory on its own connection, statement by statement, while
\* analyze_file or api_update_file annotates a record on another one.  SQLite
\* lets one connection write at a time: the first UPDATE or INSERT of a
\* transaction takes the lock, commit releases it, and a write of the other
\* connection meanwhile ends in OperationalError (database is locked).  A
\* connection reads its own uncommitted rows, the other one the committed ones.
RescanPaths == << 2, 3 >>

RescanBlobs == { "A", "C" }

\* the rows connection c reads
ReadAs(c) == IF elock = c THEN eview[1] ELSE edb

\* UPDATE files SET ... WHERE filepath = ?, or INSERT, after the SELECT said
\* whether the path has a row
WriteRow(fs, existing, data) ==
    IF existing # {}
    THEN [i \in DOMAIN fs |->
            IF fs[i].filepath = data.filepath THEN UpdateRow(fs[i], data) ELSE fs[i]]
    ELSE Append(fs, InsertRow(data))

\* the dicts of analyze_file and of api_update_file for the row of path p
AnnotationsOf(p) ==
    { [ filepath |-> p, description |-> Some("a beach"), tags |-> Some("[sea]"),
        ai_analyzed |-> 1 ],
      [ filepath |-> p, description |-> Some("edited") ],
      [ filepath |-> p, tags |-> Some("[mine]") ] }

\* scan_directory: conn = init_db(); all_files = list(discover_files(...))
RescanStart ==
    /\ spc = "idle"
    /\ rescans < MaxRescans
    /\ rescans' = rescans + 1
    /\ sidx' = 1
    /\ spc' = "select"
    /\ UNCHANGED << edb, eview, elock, sexisting, upc, upath, udata, uexisting, edits,
                    eannot, eids, einter >>
    /\ UNCHANGED << scanVars, frameVars, callVars, resolveVars, walkVars, treeVars, cleanVars >>

\* upsert_file of the scan: SELECT id FROM files WHERE filepath = ?
RescanSelect ==
    /\ spc = "select"
    /\ sidx <= Len(RescanPaths)
    /\ sexisting' = SelectByPath(ReadAs("scan"), RescanPaths[sidx])
    /\ spc' = "write"
    /\ UNCHANGED << edb, eview, elock, sidx, rescans, upc, upath, udata, uexisting, edits,
                    eannot, eids, einter >>
    /\ UNCHANGED << scanVars, frameVars, callVars, resolveVars, walkVars, treeVars, cleanVars >>

\* upsert_file of the scan: the UPDATE or INSERT with the extracted dict; when
\* the other connection holds the lock it raises and the file is an error
RescanWrite(c) ==
    /\ spc = "write"
    /\ IF elock = "edit"
       THEN UNCHANGED << eview, elock, eids >>
       ELSE LET data == ScanData(RescanPaths[sidx], c, "ok")
                fs == ReadAs("scan")
            IN  /\ eview' = Some(WriteRow(fs, sexisting, data))
                /\ elock' = "scan"
                /\ eids' = IF sexisting = {}
                           THEN [eids EXCEPT ![RescanPaths[sidx]] = Len(fs) + 1]
                           ELSE eids
    /\ sidx' = sidx + 1
    /\ spc' = "select"
    /\ UNCHANGED << edb, sexisting, rescans, upc, upath, udata, uexisting, edits, eannot,
                    einter >>
    /\ UNCHANGED << scanVars, frameVars, callVars, resolveVars, walkVars, treeVars, cleanVars >>

\* conn.commit() after the loop
RescanFlush ==
    /\ spc = "select"
    /\ sidx > Len(RescanPaths)
    /\ IF elock = "scan"
       THEN edb' = eview[1] /\ eview' = Null /\ elock' = "none"
       ELSE UNCHANGED << edb, eview, elock >>
    /\ spc' = "resolve"
    /\ UNCHANGED << sidx, sexisting, rescans, upc, upath, udata, uexisting, edits, eannot,
                    eids, einter >>
    /\ UNCHANGED << scanVars, frameVars, callVars, resolveVars, walkVars, treeVars, cleanVars >>

\* find_duplicates(conn) with its commit, and the return; its first UPDATE
\* raises out of scan_directory when the other connection holds the lock
RescanResolve ==
    /\ spc = "resolve"
    /\ IF elock = "edit" \/ find_duplicates(edb) = edb
       THEN UNCHANGED edb
       ELSE edb' = find_duplicates(edb)
    /\ spc' = "idle"
    /\ UNCHANGED << eview, elock, sidx, sexisting, rescans, upc, upath, udata, uexisting,
                    edits, eannot, eids, einter >>
    /\ UNCHANGED << scanVars, frameVars, callVars, resolveVars, walkVars, treeVars, cleanVars >>

\* analyze_file / api_update_file: the row is read by id and the dict is built
EditRead(file_id, data) ==
    /\ upc = "idle"
    /\ edits < MaxEdits
    /\ file_id \in DOMAIN edb
    /\ data \in AnnotationsOf(edb[file_id].filepath)
    /\ edits' = edits + 1
    /\ upath' = edb[file_id].filepath
    /\ udata' = Some(data)
    /\ upc' = "select"
    /\ UNCHANGED << edb, eview, elock, spc, sidx, sexisting, rescans, uexisting, eannot,
                    eids, einter >>
    /\ UNCHANGED << scanVars, frameVars, callVars, resolveVars, walkVars, treeVars, cleanVars >>

\* upsert_file of the annotation: the SELECT
EditSelect ==
    /\ upc = "select"
    /\ uexisting' = SelectByPath(ReadAs("edit"), upath)
    /\ upc' = "write"
    /\ UNCHANGED << edb, eview, elock, spc, sidx, sexisting, rescans, upath, udata, edits,
                    eannot, eids, einter >>
    /\ UNCHANGED << scanVars, frameVars, callVars, resolveVars, walkVars, treeVars, cleanVars >>

\* upsert_file of the annotation: the UPDATE; when the scan holds the lock it
\* raises and nothing is written
EditWrite ==
    /\ upc = "write"
    /\ IF elock = "scan"
       THEN /\ upc' = "idle"
            /\ udata' = Null
            /\ UNCHANGED << eview, elock >>
       ELSE /\ eview' = Some(WriteRow(ReadAs("edit"), uexisting, udata[1]))
            /\ elock' = "edit"
            /\ upc' = "commit"
            /\ UNCHANGED udata
    /\ UNCHANGED << edb, spc, sidx, sexisting, rescans, upath, uexisting, edits, eannot,
                    eids, einter >>
    /\ UNCHANGED << scanVars, frameVars, callVars, resolveVars, walkVars, treeVars, cleanVars >>

\* conn.commit() of analyze_file, or of get_connection on leaving the block
EditCommit ==
    /\ upc = "commit"
    /\ edb' = eview[1]
    /\ eview' = Null
    /\ elock' = "none"
    /\ eannot' =
          [eannot EXCEPT ![upath] =
              << IF "description" \in DOMAIN udata[1] THEN udata[1].description ELSE @[1],
                 IF "tags" \in DOMAIN udata[1] THEN udata[1].tags ELSE @[2],
                 IF "ai_analyzed" \in DOMAIN udata[1] THEN udata[1].ai_analyzed ELSE @[3] >>]
    /\ einter' = (einter \/ (spc = "write" /\ RescanPaths[sidx] = upath))
    /\ upc' = "idle"
    /\ udata' = Null
    /\ UNCHANGED << spc, sidx, sexisting, rescans, upath, uexisting, edits, eids >>
    /\ UNCHANGED << scanVars, frameVars, callVars, resolveVars, walkVars, treeVars, cleanVars >>

NextEdit ==
    \/ RescanStart
    \/ RescanSelect
    \/ \E c \in RescanBlobs : RescanWrite(c)
    \/ RescanFlush
    \/ RescanResolve
    \/ \E file_id \in 1..Len(RescanPaths) :
          \E data \in UNION { AnnotationsOf(p) : p \in Paths } : EditRead(file_id, data)
    \/ EditSelect
    \/ EditWrite
    \/ EditCommit

SpecEdit == Init /\ [][NextEdit]_vars

\* ------------------------------------------------ analyze_file, step by step
\* the record analyze_file is called for: no row, a row whose file is gone,
\* an image, a video, a row of another kind
RecordKinds == { "norow", "gone", "image", "video", "other" }

\* how the analysis of one image or frame ends: the service returned an
\* analysis; the service call failed and analyze_with_vision returned its
\* "[Error: ...]" dict; image_to_base64 raised an exception the loop's except
\* clause names (FileNotFoundError, OSError, UnidentifiedImageError); an
\* exception it does not name was raised (ValueError from img.save, TypeError
\* from all_tags.update when "tags" of the reply is not a list of strings)
FrameOutcomes == { "analysis", "failure", "decode_error", "propagate" }

\* the entry of analyze_file up to the branch on file_type; a video's frames
\* are the n temporary files extract_video_frames returned
CallAnalyze(kind, n) ==
    /\ kpc = "idle"
    /\ kout = "-"
    /\ kind = "video" \/ n = 0
    /\ kframes' = [k \in 1..n |-> k]
    /\ ktmp' = 1..n
    /\ IF kind = "image" THEN kpc' = "image" /\ UNCHANGED kout
       ELSE IF kind = "video" /\ n > 0 THEN kpc' = "loop" /\ UNCHANGED kout
       ELSE kpc' = "done" /\ kout' = "error"
    /\ UNCHANGED << ki, kexc, descriptions, kouts >>
    /\ UNCHANGED << scanVars, frameVars, callVars, resolveVars, walkVars, treeVars, editVars >>

\* b64 = image_to_base64(filepath); result = analyze_with_vision(b64)
AnalyzeImage(outcome) ==
    /\ kpc = "image"
    /\ kouts' = Append(kouts, outcome)
    /\ IF outcome \in { "decode_error", "propagate" }
       THEN kpc' = "done" /\ kout' = "raised" /\ UNCHANGED descriptions
       ELSE /\ kpc' = "store"
            /\ descriptions' = << VisionResult(outcome).description[1] >>
            /\ UNCHANGED kout
    /\ UNCHANGED << kframes, ki, ktmp, kexc >>
    /\ UNCHANGED << scanVars, frameVars, callVars, resolveVars, walkVars, treeVars, editVars >>

\* the try and except clauses of one iteration of the frame loop
AnalyzeFrame(outcome) ==
    /\ kpc = "loop"
    /\ ki < Len(kframes)
    /\ kouts' = Append(kouts, outcome)
    /\ descriptions' = IF outcome \in { "analysis", "failure" }
                       THEN Append(descriptions, VisionResult(outcome).description[1])
                       ELSE descriptions
    /\ kexc' = IF outcome = "propagate" THEN "raised" ELSE "-"
    /\ kpc' = "finally"
    /\ UNCHANGED << kframes, ki, ktmp, kout >>
    /\ UNCHANGED << scanVars, frameVars, callVars, resolveVars, walkVars, treeVars, editVars >>

\* finally: os.unlink(frame_path); then the next frame, or the exception
\* leaves analyze_file
UnlinkFrame ==
    /\ kpc = "finally"
    /\ ktmp' = ktmp \ { kframes[ki + 1] }
    /\ IF kexc # "-"
       THEN kpc' = "done" /\ kout' = "raised" /\ UNCHANGED ki
       ELSE kpc' = "loop" /\ ki' = ki + 1 /\ UNCHANGED kout
    /\ kexc' = "-"
    /\ UNCHANGED << kframes, descriptions, kouts >>
    /\ UNCHANGED << scanVars, frameVars, callVars, resolveVars, walkVars, treeVars, editVars >>

\* the loop is over: result = {"description": " | ".join(descriptions) ...}
FramesDone ==
    /\ kpc = "loop"
    /\ ki = Len(kframes)
    /\ kpc' = "store"
    /\ UNCHANGED << kframes, ki, ktmp, kexc, descriptions, kouts, kout >>
    /\ UNCHANGED << scanVars, frameVars, callVars, resolveVars, walkVars, treeVars, editVars >>

\* database.upsert_file(conn, update_data); conn.commit(); return result
StoreResult ==
    /\ kpc = "store"
    /\ kpc' = "done"
    /\ kout' = "result"
    /\ UNCHANGED << kframes, ki, ktmp, kexc, descriptions, kouts >>
    /\ UNCHANGED << scanVars, frameVars, callVars, resolveVars, walkVars, treeVars, editVars >>

NextClean ==
    \/ \E kind \in RecordKinds, n \in 0..MaxFrames : CallAnalyze(kind, n)
    \/ \E outcome \in FrameOutcomes : AnalyzeImage(outcome)
    \/ \E outcome \in FrameOutcomes : AnalyzeFrame(outcome)
    \/ UnlinkFrame
    \/ FramesDone
    \/ StoreResult

SpecClean == Init /\ [][NextClean]_vars

\* ------------------------------------------------------------------ claims
\* the resolver has run and nothing was written to the table since
Resolved == pc \in { "report", "done" }

IsDup(i) == files[i].is_duplicate = 1

\* C1: after a resolver run no record marked duplicate references a record
\* that is itself marked duplicate.
NoDuplicateChains ==
    Resolved =>
        \A i \in DOMAIN files :
            (IsDup(i) /\ files[i].duplicate_of # Null)
                => files[files[i].duplicate_of[1]].is_duplicate = 0

\* C2: a second resolver run right after the first, on the unchanged record
\* set, leaves every is_duplicate flag and duplicate_of reference as the
\* first run left it.
ResolverIdempotent ==
    pc = "report" =>
        \A i \in DOMAIN files :
            /\ find_duplicates(files)[i].is_duplicate = files[i].is_duplicate
            /\ find_duplicates(files)[i].duplicate_of = files[i].duplicate_of

\* the near-duplicate phase of the run marked a record, and a rescan came first
ResolverIdempotentWitness ==
    /\ pc = "report"
    /\ scans = 2
    /\ \E i \in DOMAIN files : IsDup(i) /\ preResolve[i].is_duplicate = 0
    /\ \E i \in DOMAIN files : files[i].is_duplicate = 0

\* the records sharing the (non-null) digest of record i
SameDigest(i) ==
    { j \in DOMAIN files :
        files[i].file_hash # Null /\ files[j].file_hash = files[i].file_hash }

\* C3: in every group of two or more records with one non-null digest the
\* lowest id is left as it was by the exact phase and every other member is
\* marked duplicate of that id, also when the whole resolver has run; a record
\* sharing its digest with no other record is left as it was by the exact
\* phase.
ExactGrouping ==
    pc \in { "near", "report" } =>
        \A i \in DOMAIN files :
            LET group == SameDigest(i)
                first == CHOOSE m \in group : \A j \in group : m <= j
            IN  IF Cardinality(group) >= 2
                THEN /\ i # first => /\ files[i].is_duplicate = 1
                                      /\ files[i].duplicate_of = Some(first)
                     /\ (i = first /\ pc = "near") => files[i] = preResolve[i]
                ELSE pc = "near" => files[i] = preResolve[i]

\* the exact phase has run over a group of two and a record of another digest
ExactGroupingWitness ==
    /\ pc = "near"
    /\ \E i, j, k \in DOMAIN files :
          /\ i < j
          /\ SameDigest(i) = { i, j }
          /\ SameDigest(k) = { k }
          /\ preResolve[j].is_duplicate = 0
          /\ files[j].duplicate_of = Some(i)

\* record i matches no other record: no other record has its digest, and no
\* other image fingerprint is within the threshold of its own
MatchesNothing(i) ==
    /\ SameDigest(i) \subseteq { i }
    /\ \A j \in DOMAIN files \ { i } :
          (files[i].perceptual_hash # Null /\ files[j].perceptual_hash # Null)
              => Hamming(hex_to_hash(files[i].perceptual_hash[1]),
                         hex_to_hash(files[j].perceptual_hash[1])) > NearDupThreshold

\* C4: links are recomputed from scratch by every run: a record that an
\* earlier run marked duplicate and whose digest the scan has changed, so that
\* it matches no other record, is after the scan's resolver run not marked
\* duplicate and carries no duplicate_of.
StaleLinksCleared ==
    pc = "report" =>
        \A i \in DOMAIN atStart :
            ( /\ atStart[i].is_duplicate = 1
              /\ atStart[i].file_hash # files[i].file_hash
              /\ MatchesNothing(i) )
                => files[i].is_duplicate = 0 /\ files[i].duplicate_of = Null

\* C5: every record marked duplicate references an existing record with a
\* smaller id (hence not itself, and no cycle of references).
LinksPointBack ==
    \A i \in DOMAIN files :
        IsDup(i) => /\ files[i].duplicate_of # Null
                    /\ files[i].duplicate_of[1] \in DOMAIN files
                    /\ files[i].duplicate_of[1] < i

\* links of both phases exist after a second scan
LinksPointBackWitness ==
    /\ pc = "report"
    /\ scans = 2
    /\ \E i, j \in DOMAIN files :
          /\ IsDup(i) /\ IsDup(j)
          /\ files[files[i].duplicate_of[1]].file_hash = files[i].file_hash
          /\ files[files[j].duplicate_of[1]].file_hash # files[j].file_hash

\* C6: at most one record per filepath; an upsert for a path that has a record
\* writes the dict into that record, returns its id and adds no row, and an
\* upsert for a new path adds exactly one row.
PathIsIdentity ==
    /\ \A i, j \in DOMAIN files : files[i].filepath = files[j].filepath => i = j
    /\ lastUpsert # Null =>
          LET u == lastUpsert[1] IN
          /\ files[u.id].filepath = u.data.filepath
          /\ IF u.before # {}
             THEN u.before = { u.id } /\ Len(files) = u.rows
             ELSE u.id = u.rows + 1 /\ Len(files) = u.rows + 1
          /\ pc = "walk" => \A k \in DOMAIN u.data : files[u.id][k] = u.data[k]

\* a rescan has upserted a path that already had a record, with other bytes
PathIsIdentityWitness ==
    /\ lastUpsert # Null
    /\ lastUpsert[1].before # {}
    /\ Len(files) >= 2
    /\ atStart[lastUpsert[1].id].file_hash # files[lastUpsert[1].id].file_hash

\* the columns an extraction can set
ExtractColumns ==
    { "filename", "original_filename", "file_type", "file_size", "file_hash",
      "perceptual_hash", "width", "height", "exif_data", "is_junk", "junk_reason" }

\* C7: after a file is scanned, every extraction column of its record holds
\* what the latest extraction derived, and is absent where it derived nothing.
FieldsOverwritten ==
    lastUpsert # Null =>
        LET u == lastUpsert[1] IN
        \A k \in ExtractColumns :
            files[u.id][k] = IF k \in DOMAIN u.data THEN u.data[k] ELSE Null

\* C10: no failure while a file is processed stops the scan: the walk reaches
\* every discovered file, each file either raised or was upserted, the resolver
\* runs, and the report names every failing path in errors.
ScanSurvivesFailures ==
    /\ pc \in { "exact", "near", "report", "done" } =>
          /\ idx = Len(all_files)
          /\ files_processed + Len(raised) = Len(all_files)
          /\ \A k \in 1..Len(all_files) :
                \/ \E e \in 1..Len(raised) : raised[e] = all_files[k]
                \/ \E i \in DOMAIN files :
                      /\ files[i].filepath = all_files[k]
                      /\ files[i].file_hash = Some(compute_file_hash(disk[all_files[k]]))
    /\ pc = "done" =>
          /\ report # Null
          /\ files = find_duplicates(preResolve)
          /\ Len(report[1].errors) = Len(raised)
          /\ \A e \in 1..Len(raised) : report[1].errors[e][1] = raised[e]

\* a scan is done in which a file raised and a later file was stored
ScanSurvivesFailuresWitness ==
    /\ pc = "done"
    /\ raised # <<>>
    /\ lastUpsert # Null
    /\ \E k \in 1..Len(all_files) :
          /\ all_files[k] = raised[1]
          /\ k < Len(all_files)
          /\ lastUpsert[1].data.filepath = all_files[Len(all_files)]

\* the ffmpeg outcomes that raise
Raising == { o \in FfmpegOutcomes : RaisedBy(o) # "-" }

\* C8: when extract_video_frames returns, every temporary file the call
\* created is in the returned list or no longer exists, and nothing else is
\* left; when the second of two frames fails after the first succeeded, the
\* first frame's path alone is returned and it is the only file left.
TempFilesCleaned ==
    fpc = "return" =>
        /\ \A t \in made : t \in Range(frames) \/ t \notin tmpfs
        /\ tmpfs = Range(frames)
        /\ ( /\ num_frames = 2
             /\ Len(outcomes) = 2
             /\ outcomes[1] = "written"
             /\ outcomes[2] \in Raising )
              => /\ Len(frames) = 1
                 /\ frames[1] \in made
                 /\ tmpfs = { frames[1] }

\* the two-frame call returned after its second ffmpeg was not found
TempFilesCleanedWitness ==
    /\ fpc = "return"
    /\ num_frames = 2
    /\ outcomes = << "written", "missing" >>
    /\ Cardinality(made) = 2

\* C9: a frame whose extraction raises does not end the loop: ffmpeg is run
\* for every frame index of the call.
FrameFailureDoesNotAbort ==
    (fpc = "return" /\ \E k \in 1..Len(outcomes) : outcomes[k] \in Raising)
        => Len(outcomes) = num_frames

\* the position of a reason in the returned list, 0 when it is not there
ReasonAt(reasons, msg) ==
    IF \E k \in 1..Len(reasons) : reasons[k].msg = msg
    THEN CHOOSE k \in 1..Len(reasons) : reasons[k].msg = msg
    ELSE 0

\* C11: detect_junk accumulates its reasons: "very small (N bytes)" is in
\* the list iff the size is strictly below the threshold (with N the size),
\* the pattern reason iff the lower-cased name holds a marker, the corruption
\* reason iff the path has an image extension and validation fails; they come
\* in this order, each at most once; is_junk is true iff the list is not
\* empty, and the result is (False, '') when no reason applies.
JunkReasonsAccumulate ==
    jret # Null =>
        LET a == jarg[1]
            r == jret[1]
            small == ReasonAt(r.reason, "very small (N bytes)")
            pattern == ReasonAt(r.reason, "thumbnail/system file pattern")
            corrupt == ReasonAt(r.reason, "corrupted or unreadable image")
            count == Cardinality({ x \in { small, pattern, corrupt } : x # 0 })
        IN  /\ small # 0 <=> a.size < 10000
            /\ small # 0 => r.reason[small].n = a.size
            /\ pattern # 0 <=> HasJunkPattern(lower(basename(a.p)))
            /\ corrupt # 0 <=> (lower(splitext(a.p)) \in IMAGE_EXTENSIONS /\ ~Verifies(a.c))
            /\ Len(r.reason) = count
            /\ (small # 0 /\ pattern # 0) => small < pattern
            /\ (small # 0 /\ corrupt # 0) => small < corrupt
            /\ (pattern # 0 /\ corrupt # 0) => pattern < corrupt
            /\ r.is_junk <=> Len(r.reason) > 0
            /\ count = 0 => r = [ is_junk |-> FALSE, reason |-> <<>> ]

\* a 500-byte unreadable thumb_b.JPG was classified: three reasons
JunkReasonsAccumulateWitness ==
    /\ jret # Null
    /\ jarg[1].size = 500
    /\ Len(jret[1].reason) = 3
    /\ jret[1].reason[2].msg = "thumbnail/system file pattern"

\* C12: an image whose content cannot be decoded is stored, not reported as
\* an error: its record has is_junk = 1 and a reason holding "corrupted or
\* unreadable image", it is counted in files_processed, files_found counts
\* every file the walk has reached, and errors holds only the files that raised.
CorruptImageStoredAsJunk ==
    lastUpsert # Null =>
        LET u == lastUpsert[1]
            p == u.data.filepath
        IN  (get_file_type(p) = "image" /\ ~Decodable(disk[p])) =>
                /\ files[u.id].filepath = p
                /\ files[u.id].is_junk = 1
                /\ files[u.id].junk_reason # Null
                /\ ReasonAt(files[u.id].junk_reason[1], "corrupted or unreadable image") # 0
                /\ files_found = idx
                /\ files_processed + Len(errors) = idx
                /\ \A e \in 1..Len(errors) : errors[e][1] # p /\ errors[e][1] = raised[e]

\* the files this scan has stored so far
StoredThisScan ==
    { all_files[k] : k \in 1..idx } \ Range(raised)

VideoProbeDegrades ==
    (vret # Null /\ varg[1].probe # "ok") =>
        /\ vret[1].raised = "-"
        /\ vret[1].data # Null
        /\ LET data == vret[1].data[1] IN
            /\ data.filepath = varg[1].p
            /\ data.file_size = Some(SizeOf(varg[1].c))
            /\ data.file_hash = Some(compute_file_hash(varg[1].c))
            /\ "width" \notin DOMAIN data
            /\ "height" \notin DOMAIN data

\* C15: get_connection is transactional: when the block ends normally the
\* database file holds every row the block wrote, after what it held before;
\* when the block raises it holds what it held before the block and the
\* exception reaches the caller; the connection is closed in both cases.
ConnectionTransactional ==
    (cpc = "closed" /\ blocks > 0) =>
        /\ conn = Null
        /\ cout = "-" => db = cbefore \o cwritten
        /\ cout # "-" => db = cbefore
        /\ cout \in { "-", "Exception", "BaseException" }
        /\ cexc = "-"

\* a block that wrote two rows was committed, and a later block that wrote
\* a row raised
ConnectionTransactionalWitness ==
    /\ cpc = "closed"
    /\ blocks = 2
    /\ cout = "Exception"
    /\ Len(cbefore) = 2
    /\ Len(cwritten) >= 1
    /\ db = cbefore

\* C16: rename_file is all-or-nothing: the call returns an error and leaves
\* the directory and the records as they were, or it moves the file to the
\* new name in the directory and sets the record's filepath and filename to
\* it; and afterwards the record's filepath names the place its file is at.
RenameAllOrNothing ==
    rlast # Null =>
        LET r == rlast[1] IN
        /\ \/ r.kind = "error" /\ rdir = r.dir /\ recs = r.recs
           \/ /\ r.kind = "success"
              /\ r.file_id \in DOMAIN recs
              /\ r.dir[r.recs[r.file_id].filepath] = r.file_id
              /\ r.dir[r.msg] = 0
              /\ rdir = [r.dir EXCEPT ![r.recs[r.file_id].filepath] = 0, ![r.msg] = r.file_id]
              /\ recs = [r.recs EXCEPT ![r.file_id] = [ filepath |-> r.msg, filename |-> r.msg ]]
        /\ r.file_id \in DOMAIN recs =>
              \A n \in DirNames : rdir[n] = r.file_id => recs[r.file_id].filepath = n

\* the attempts of the run that ended in one of the given ways
AttemptsOf(kinds) == { k \in 1..Len(attempts) : attempts[k].kind \in kinds }

\* C17: analyze_all_unprocessed selects exactly the records with
\* ai_analyzed = 0 and is_junk = 0, calls analyze_file once for each of them
\* and for no other record, and returns counts with processed + errors =
\* total, errors counting the calls that returned an error result or raised.
AnalysisAccounting ==
    apc \in { "loop", "done" } =>
        /\ Range(rows) = { i \in DOMAIN selectedFrom :
                             selectedFrom[i].ai_analyzed = 0 /\ selectedFrom[i].is_junk = 0 }
        /\ \A k, l \in 1..Len(rows) : rows[k] = rows[l] => k = l
        /\ Len(attempts) = ai
        /\ \A k \in 1..Len(attempts) : attempts[k].id = rows[k]
        /\ \A i \in DOMAIN files : files[i].is_junk = 1 => files[i].ai_analyzed = 0
        /\ results.total = Len(rows)
        /\ results.processed = Cardinality(AttemptsOf({ "result" }))
        /\ results.errors = Cardinality(AttemptsOf({ "error", "raised" }))
        /\ apc = "done" =>
              /\ Len(attempts) = Len(rows)
              /\ results.processed + results.errors = results.total

\* a second run is done over a table with a junk record and an analyzed
\* record, in which one call returned a result and another raised
AnalysisAccountingWitness ==
    /\ apc = "done"
    /\ runs = 2
    /\ \E i \in DOMAIN selectedFrom : selectedFrom[i].is_junk = 1
    /\ \E i \in DOMAIN selectedFrom : selectedFrom[i].ai_analyzed = 1
    /\ AttemptsOf({ "result" }) # {}
    /\ AttemptsOf({ "raised" }) # {}

\* the table as the near-duplicate phase of the last resolver run found it
BeforeNear == ExactPhase(preResolve)

\* the ids of that phase's phash_list, in processing order
Eligible == PhashRows(BeforeNear)

\* the UPDATE statements that phase issued
NearLog == NearStatements(BeforeNear, PhashList(BeforeNear), 1, 2)

\* the Hamming distance of the stored fingerprints of records a and b
Distance(a, b) ==
    Hamming(hex_to_hash(files[a].perceptual_hash[1]),
            hex_to_hash(files[b].perceptual_hash[1]))

\* C18: in the near-duplicate phase no record that is marked duplicate at
\* that moment is written as another record's duplicate_of: every UPDATE of
\* the pass that changes a record names an original with is_duplicate = 0.
NearOriginalNotDuplicate ==
    Resolved =>
        \A k \in 1..Len(NearLog) :
            NearLog[k].b_dup = 0 => NearLog[k].a_dup = 0

\* the positions in Eligible of the candidates of the record at position k:
\* the earlier records within the threshold
Candidates(k) ==
    { m \in 1..(k - 1) : Distance(Eligible[m], Eligible[k]) <= 8 }

\* C19: in the near-duplicate phase a record already marked duplicate is not
\* marked again: an UPDATE for a marked record changes nothing, every record
\* the phase marked references the earliest candidate within the threshold,
\* and every other record is as the phase found it.
NearMarksOnce ==
    Resolved =>
        /\ files = NearPhase(BeforeNear)
        /\ \A k \in 1..Len(Eligible) :
              LET b == Eligible[k] IN
              IF Candidates(k) # {}
              THEN /\ files[b].is_duplicate = 1
                   /\ files[b].duplicate_of =
                         Some(Eligible[CHOOSE m \in Candidates(k) : \A n \in Candidates(k) : m <= n])
              ELSE files[b] = BeforeNear[b]
        /\ \A i \in DOMAIN files : i \notin Range(Eligible) => files[i] = BeforeNear[i]
        /\ \A k, l \in 1..Len(NearLog) :
              (k < l /\ NearLog[k].id_b = NearLog[l].id_b) =>
                  /\ NearLog[l].b_dup = 1
                  /\ files[NearLog[l].id_b].duplicate_of # Some(NearLog[l].id_a)

\* the phase met a record with two candidates
NearMarksOnceWitness ==
    /\ pc = "report"
    /\ \E k \in 1..Len(Eligible) : Cardinality(Candidates(k)) = 2
    /\ \E k \in 1..Len(NearLog) : NearLog[k].b_dup = 1

\* C20: the threshold is 8, inclusive: the pairs the phase takes as near
\* duplicates are the eligible pairs at Hamming distance <= 8; afterwards no
\* two eligible images at distance <= 8 both have is_duplicate = 0, and an
\* eligible image farther than 8 from every other eligible image is as the
\* phase found it.
NearThresholdInclusive ==
    Resolved =>
        /\ { << NearLog[k].id_a, NearLog[k].id_b >> : k \in 1..Len(NearLog) }
              = { ab \in Range(Eligible) \X Range(Eligible) :
                    ab[1] < ab[2] /\ Distance(ab[1], ab[2]) <= 8 }
        /\ \A a, b \in Range(Eligible) :
              (a # b /\ Distance(a, b) <= 8) =>
                  ~(files[a].is_duplicate = 0 /\ files[b].is_duplicate = 0)
        /\ \A a \in Range(Eligible) :
              (\A b \in Range(Eligible) \ { a } : Distance(a, b) > 8) =>
                  files[a] = BeforeNear[a]

\* the phase marked an image at distance 8 from its original and left two
\* images at distance 9 from each other unmarked
NearThresholdInclusiveWitness ==
    /\ pc = "report"
    /\ \E a, b, c \in Range(Eligible) :
          /\ Distance(a, b) = 8
          /\ Distance(a, c) = 9
          /\ files[b].duplicate_of = Some(a)
          /\ files[a].is_duplicate = 0
          /\ files[c].is_duplicate = 0

\* a record phase 2 does not read: not an image, or without fingerprint, or
\* marked by phase 1
NearIneligible(i) ==
    \/ rtable[1][i].file_type # Some("image")
    \/ rtable[1][i].perceptual_hash = Null
    \/ rmid[i].is_duplicate = 1

\* C21: a record with a NULL file_hash is neither marked duplicate nor made
\* an original by the exact phase; a record that is a video, has no
\* perceptual hash or was marked by the exact phase is neither marked nor
\* made an original by the near-duplicate phase.
ResolverEligibility ==
    rtable # Null =>
        /\ \A i \in DOMAIN rtable[1] :
               rtable[1][i].file_hash = Null =>
                   /\ rmid[i] = rtable[1][i]
                   /\ \A j \in DOMAIN rtable[1] :
                          rmid[j] # rtable[1][j] => rmid[j].duplicate_of # Some(i)
        /\ \A i \in DOMAIN rtable[1] :
               NearIneligible(i) =>
                   /\ rout[i] = rmid[i]
                   /\ \A j \in DOMAIN rtable[1] :
                          rout[j] # rmid[j] => rout[j].duplicate_of # Some(i)

\* two records without digest, one of them a video with a fingerprint, in a
\* table where both phases marked a record
ResolverEligibilityWitness ==
    /\ rtable # Null
    /\ \E i, j \in DOMAIN rtable[1] :
          /\ i # j
          /\ rtable[1][i].file_hash = Null
          /\ rtable[1][j].file_hash = Null
          /\ rtable[1][j].file_type = Some("video")
          /\ rtable[1][j].perceptual_hash # Null
    /\ \E k \in DOMAIN rmid : rmid[k] # rtable[1][k]
    /\ \E k \in DOMAIN rout : rout[k] # rmid[k]
\* the phases of one scan, in order
PhaseOrder ==
    { <<"idle", "walk">>, <<"walk", "exact">>, <<"exact", "near">>,
      <<"near", "report">>, <<"report", "done">>, <<"done", "idle">> }

\* the is_duplicate flags and duplicate_of references of a table
Links(fs) == [i \in DOMAIN fs |-> <<fs[i].is_duplicate, fs[i].duplicate_of>>]

ScanPhaseStep ==
    /\ pc' # pc => <<pc, pc'>> \in PhaseOrder
    \* the list of paths is complete when the walk starts and fixed during it
    /\ (pc = "idle" /\ pc' = "walk") => (all_files' = discover_files(disk) /\ idx' = 0)
    /\ (pc = "walk" /\ pc' = "walk") => (all_files' = all_files /\ idx' = idx + 1)
    \* the resolver starts after the last file and the final commit
    /\ (pc = "walk" /\ pc' = "exact") => (idx = Len(all_files) /\ uncommitted' = 0)
    \* only the resolver writes flags and references, and only in its phases
    /\ pc \notin { "exact", "near" } =>
          \A i \in DOMAIN files : Links(files')[i] = Links(files)[i]
    /\ (pc = "near" /\ pc' = "report") => files' = find_duplicates(preResolve)
    \* the report is built from the table the resolver left
    /\ report' # report =>
          \/ pc = "report" /\ pc' = "done" /\ files = find_duplicates(preResolve)
          \/ report' = Null

\* C22: a scan goes through discovery, walk, resolver and report in this
\* order: the paths are all discovered before the first file is handled, the
\* resolver runs once, after the last file and the final commit, and the
\* report is built after the resolver has finished.
ScanPhaseOrdering == [][ScanPhaseStep]_vars

\* a scan of several files, one of which raised, whose resolver marked a
\* record, has built its report
ScanPhaseOrderingWitness ==
    /\ pc = "done"
    /\ report # Null
    /\ Len(all_files) >= 3
    /\ Len(errors) = 1
    /\ Links(files) # Links(preResolve)
\* C23: the store is committed at every BATCH_SIZE-th file of the walk and
\* once more after the last one: never more than BATCH_SIZE upserted records
\* are uncommitted, between two iterations fewer than BATCH_SIZE are and none
\* at a multiple of BATCH_SIZE, and none is when the resolver starts.
BatchedPersistence ==
    /\ wuncommitted <= BATCH_SIZE
    /\ wpc = "body" =>
          /\ wuncommitted <= wi % BATCH_SIZE
          /\ wcommits = wi \div BATCH_SIZE
    /\ wpc \in { "callback", "resolve", "raised" } =>
          /\ wuncommitted = 0
          /\ wcommits = (wtotal \div BATCH_SIZE) + 1

\* a walk of more than two batches, with failures, is about to start the
\* resolver after two batch commits and the final one
BatchedPersistenceWitness ==
    /\ wpc = "resolve"
    /\ wtotal > 2 * BATCH_SIZE
    /\ wcommits = 3
    /\ werrors # <<>>
    /\ wupserts > 2 * BATCH_SIZE - MaxRaises

\* the progress_callback calls of a scan of n files that reaches the resolver
CadenceCalls(n) ==
    [k \in 1..((n \div 10) + 1) |->
        IF k <= n \div 10 THEN <<10 * k, n, "">>
        ELSE <<n, n, "Detecting duplicates...">>]

\* C24: with a callback, scan_directory calls it once for every 10th file of
\* the walk with (10, total), (20, total), ... and once more after the walk,
\* before the resolver, with (total, total) and the phase label; without a
\* callback nothing is called.
ProgressCadence ==
    wpc \in { "resolve", "done" } =>
        wcalls = IF wcallback THEN CadenceCalls(wtotal) ELSE <<>>

\* C27: when scan_directory returns, files_found is the number of discovered
\* paths and every one of them is counted once, as processed (its record
\* was upserted) or as an error.
ScanAccounting ==
    wstats # Null =>
        /\ wstats[1].files_found = wtotal
        /\ wstats[1].files_processed + wstats[1].errors = wstats[1].files_found
        /\ wstats[1].files_processed = wupserts
\* the ways the duration probe fails: non-zero exit, unparsable output,
\* timeout, tool missing
ProbeFailures == ProbeOutcomes \ { "ok" }

\* C25: whenever the duration probe fails, extract_video_frames goes on with
\* the default duration of 10 and runs ffmpeg at the timestamps
\* 10 * (i + 1) / (n + 1), i = 0, 1, ...: the call is not given up before
\* the first frame is attempted, unless no temporary file can be created.
FrameSamplingDefault ==
    (probed \in ProbeFailures /\ fpc # "idle") =>
        /\ duration = DefaultDuration
        /\ fpc # "except" \/ stamps # <<>> \/ exc = "OSError"
        /\ \A k \in DOMAIN stamps : stamps[k] = << DefaultDuration * k, num_frames + 1 >>
\* the lower-cased extension of a file name
ExtensionOf(name) == JoinChars(lower_name(path_splitext(name)))

\* C26: discover_files yields exactly the files under the root with a media
\* extension (compared in lower case) none of whose names below the root,
\* directory or file, begins with "."; and get_file_type classifies every
\* yielded path as image or video.
DiscoveryFilter ==
    tree # Null =>
        /\ yielded =
              { f \in tree[1] :
                  /\ ExtensionOf(f[Len(f)]) \in IMAGE_EXTENSIONS \cup VIDEO_EXTENSIONS
                  /\ \A k \in 1..Len(f) : ~startswith_dot(f[k]) }
        /\ \A f \in yielded : path_file_type(JoinPath(f)) \in { "image", "video" }

\* a media file two levels below a hidden directory is not yielded while a
\* media file in a visible directory is
DiscoveryFilterWitness ==
    /\ tree # Null
    /\ \E f \in tree[1] :
          /\ Len(f) = 3
          /\ startswith_dot(f[1])
          /\ ~startswith_dot(f[2])
          /\ ~startswith_dot(f[3])
          /\ ExtensionOf(f[3]) \in IMAGE_EXTENSIONS
          /\ f \notin yielded
    /\ \E f \in yielded : Len(f) >= 2 /\ ExtensionOf(f[Len(f)]) \in VIDEO_EXTENSIONS
\* C28: a scan never changes the id, description, tags or ai_analyzed of a
\* record that exists: every committed row has the id its INSERT returned
\* and the annotation the committed analyses and edits of its path left,
\* however the statements of scans and annotations interleave.
RescanFrame ==
    \A i \in DOMAIN edb :
        /\ eids[edb[i].filepath] = i
        /\ << edb[i].description, edb[i].tags, edb[i].ai_analyzed >> = eannot[edb[i].filepath]

\* a record annotated by an analysis, one annotation committed between the
\* SELECT and the UPDATE of a scan's upsert of the same path, after two scans
RescanFrameWitness ==
    /\ spc = "idle"
    /\ rescans = 2
    /\ einter
    /\ \E i \in DOMAIN edb : edb[i].ai_analyzed = 1 /\ edb[i].description # Null
\* C29: when analyze_file returns or raises, every temporary frame file
\* extract_video_frames handed it has been deleted, whether the frames were
\* analysed, failed with a handled error, or an exception left the loop.
FramesDeleted == kpc = "done" => ktmp = {}
\* the description analyze_with_vision returns when the service call failed
FailureDescription == VisionResult("failure").description

\* C30: analyze_file sets ai_analyzed = 1 only when the vision service
\* returned an analysis; when the service call fails the record keeps
\* ai_analyzed = 0 and its description, so no record ever holds the
\* description of a failed call or is marked analyzed without an analysis.
AnalysisRetry ==
    \A i \in DOMAIN files :
        /\ files[i].description # FailureDescription
        /\ files[i].ai_analyzed = 1 => files[i].description = VisionResult("analysis").description
====
